---- MODULE Spec2Model ----
(***************************************************************************)
(* Dependency graph engine and incremental build orchestrator of the       *)
(* flywork CLI (package dag, package build, package setup).                 *)
(*                                                                         *)
(* Repository ids are modelled as small naturals; their numeric order      *)
(* stands for the lexicographic order sort.Strings uses.  A Go map is      *)
(* iterated in an unspecified order, so every operator that ranges over a  *)
(* map yields the SET of results the iteration orders can produce.         *)
(***************************************************************************)
EXTENDS Naturals, Integers, Sequences, FiniteSets, TLC

VARIABLES
    g,        \* SpecGraph: the graph built so far by AddNode/AddEdge calls
    out,      \* the last query applied (operation, arguments, result)
    fw,       \* Spec: the graph dag.FrameworkGraph() returns
    repos,    \* the repositories directory: per repo, dir/pom.xml present and HEAD
    disk,     \* ~/.flywork/build-manifest.json
    pc,       \* "idle", inside the loop of a pass ("build", "clone", "install") or "returned"
    manifest, \* RunDAGBuild's in-memory *BuildManifest
    opts,     \* RunDAGBuild's BuildOptions
    plan,     \* RunDAGBuild's locals: changed, buildSet, layers, total
    idx,      \* RunDAGBuild's idx: nodes processed so far
    results,  \* RunDAGBuild's results slice
    calls,    \* the callbacks and external actions invoked, in order
    ret,      \* what the last call returned
    runs,     \* passes started
    commits,  \* commits made to the repositories between passes
    setup,    \* the *setup.Manifest handed to CloneAllDAG/InstallAllDAG (or nil)
    setupDisk, \* ~/.flywork/setup-manifest.json
    session,  \* the commands of the run: "build" (build passes), "setup", or "publish" (flywork build and flywork publish)
    deployed  \* per repo, the HEAD at its last successful build and at its last successful deploy

\* ------------------------------------------------------------------ bounds
MaxNodes == 3
MaxEdges == 4
MaxRuns == 2
MaxCommits == 1
MaxAbnormal == 1
MaxPasses == 4
MaxInterruptPass == 1
MaxOps == 5
MaxCommands == 2

\* ids that AddNode/AddEdge may be called with
Ids == 1..MaxNodes
\* an id that is never added to any graph (an unknown repository name)
Unknown == 0
QueryIds == Ids \cup {Unknown}

\* ----------------------------------------------------------------- helpers
\* nothing built and nothing deployed yet
NoDeploys == [built |-> <<>>, published |-> <<>>]

\* every order in which a Go `for k := range m` may visit the keys S
RECURSIVE Perms(_)
Perms(S) ==
    IF S = {} THEN {<<>>}
    ELSE UNION {{<<x>> \o p : p \in Perms(S \ {x})} : x \in S}

\* m[k] of a Go map of sets: the zero value (nil map) when k is absent
Get(m, k) == IF k \in DOMAIN m THEN m[k] ELSE {}

Put(m, k, v) == [x \in (DOMAIN m) \cup {k} |-> IF x = k THEN v ELSE m[x]]

Range(s) == {s[i] : i \in 1..Len(s)}

RECURSIVE Reverse(_)
Reverse(s) == IF s = <<>> THEN <<>> ELSE Append(Reverse(Tail(s)), Head(s))

RECURSIVE Flatten(_)
Flatten(ls) == IF ls = <<>> THEN <<>> ELSE Head(ls) \o Flatten(Tail(ls))

\* mutant: the result is returned in discovery order, unsorted
SortStrings_Unsorted(s) == s

\* sort.Strings: ascending insertion of each element
RECURSIVE SortInsert(_, _)
SortInsert(s, x) ==
    IF s = <<>> THEN <<x>>
    ELSE IF x <= Head(s) THEN <<x>> \o s
    ELSE <<Head(s)>> \o SortInsert(Tail(s), x)

RECURSIVE SortStrings(_)
SortStrings(s) == IF s = <<>> THEN <<>> ELSE SortInsert(SortStrings(Tail(s)), Head(s))

\* ------------------------------------------------------------ package dag
New == [nodes |-> {}, edges |-> <<>>, reverse |-> <<>>, ordered |-> <<>>]

AddNode(gr, id) ==
    IF id \in gr.nodes THEN gr
    ELSE [nodes   |-> gr.nodes \cup {id},
          edges   |-> Put(gr.edges, id, {}),
          reverse |-> Put(gr.reverse, id, {}),
          ordered |-> Append(gr.ordered, id)]

\* mutant: the edge reaches the forward index only
AddEdge_ForwardOnly(gr, from, to) ==
    LET g2 == AddNode(AddNode(gr, from), to)
    IN  [g2 EXCEPT !.edges[from] = @ \cup {to}]

AddEdge(gr, from, to) ==
    LET g2 == AddNode(AddNode(gr, from), to)
    IN  [g2 EXCEPT !.edges[from] = @ \cup {to}, !.reverse[to] = @ \cup {from}]

NodeCount(gr) == Cardinality(gr.nodes)

\* the (from, to) pairs with g.edges[from][to] set
EdgesOf(gr) == {<<a, b>> \in gr.nodes \X gr.nodes : b \in Get(gr.edges, a)}

HasNode(gr, id) == id \in gr.nodes

Nodes(gr) == gr.ordered

\* inDegree[id] = len(g.edges[id]) for every node
InitInDegree(gr) == [id \in gr.nodes |-> Cardinality(Get(gr.edges, id))]

\* mutant: every node seeds the first wave
SeedZero_All(ordered, inDegree) == ordered

\* the ids of g.ordered with inDegree 0, in insertion order
RECURSIVE SeedZero(_, _)
SeedZero(ordered, inDegree) ==
    IF ordered = <<>> THEN <<>>
    ELSE IF inDegree[Head(ordered)] = 0
         THEN <<Head(ordered)>> \o SeedZero(Tail(ordered), inDegree)
         ELSE SeedZero(Tail(ordered), inDegree)

\* mutant: a dependent is enqueued at in-degree 1 instead of 0
RECURSIVE Peel_OffByOne(_, _, _, _)
Peel_OffByOne(order, i, inDegree, queue) ==
    IF i > Len(order) THEN [inDegree |-> inDegree, queue |-> queue]
    ELSE Peel_OffByOne(order, i + 1, [inDegree EXCEPT ![order[i]] = @ - 1],
                       IF inDegree[order[i]] - 1 = 1 THEN Append(queue, order[i]) ELSE queue)

\* for dependent := range g.reverse[node] { inDegree[dependent]--; if 0 append }
RECURSIVE Peel(_, _, _, _)
Peel(order, i, inDegree, queue) ==
    IF i > Len(order) THEN [inDegree |-> inDegree, queue |-> queue]
    ELSE LET d   == order[i]
             deg == inDegree[d] - 1
         IN  Peel(order, i + 1, [inDegree EXCEPT ![d] = deg],
                  IF deg = 0 THEN Append(queue, d) ELSE queue)

\* ---- detectCycle: DFS with white/gray/black colouring and parent pointers
White == 0
Gray == 1
Black == 2
UnknownCycle == <<-1>>

\* color[k] of the Go map: the zero value, white, when k has no entry
ColorOf(color, k) == IF k \in DOMAIN color THEN color[k] ELSE White

\* cycle = [dep, node]; for cur != dep { cur = parent[cur]; append }
RECURSIVE CycleWalk(_, _, _, _)
CycleWalk(cycle, cur, dep, parent) ==
    IF cur = dep THEN cycle
    ELSE CycleWalk(Append(cycle, parent[cur]), parent[cur], dep, parent)

\* mutant: the walked path is not reversed
ReconstructCycle_NoReverse(dep, node, parent) ==
    CycleWalk(<<dep, node>>, node, dep, parent)

ReconstructCycle(dep, node, parent) ==
    Reverse(CycleWalk(<<dep, node>>, node, dep, parent))

RECURSIVE dfsDeps(_, _, _, _, _, _)
RECURSIVE dfs(_, _, _, _)
dfsDeps(gr, node, order, i, color, parent) ==
    IF i > Len(order)
    THEN {[found |-> FALSE, cycle |-> <<>>,
           col |-> Put(color, node, Black), par |-> parent]}
    ELSE LET dep == order[i] IN
         IF ColorOf(color, dep) = Gray
         THEN {[found |-> TRUE, cycle |-> ReconstructCycle(dep, node, parent),
                col |-> color, par |-> parent]}
         ELSE IF ColorOf(color, dep) = White
         THEN UNION {IF sub.found THEN {sub}
                     ELSE dfsDeps(gr, node, order, i + 1, sub.col, sub.par)
                     : sub \in dfs(gr, dep, color, Put(parent, dep, node))}
         ELSE dfsDeps(gr, node, order, i + 1, color, parent)

dfs(gr, node, color, parent) ==
    UNION {dfsDeps(gr, node, order, 1, Put(color, node, Gray), parent)
           : order \in Perms(Get(gr.edges, node))}

RECURSIVE detectCycleFrom(_, _, _, _)
detectCycleFrom(gr, i, color, parent) ==
    IF i > Len(gr.ordered) THEN {UnknownCycle}
    ELSE IF ColorOf(color, gr.ordered[i]) = White
         THEN UNION {IF top.found THEN {top.cycle}
                     ELSE detectCycleFrom(gr, i + 1, top.col, top.par)
                     : top \in dfs(gr, gr.ordered[i], color, parent)}
         ELSE detectCycleFrom(gr, i + 1, color, parent)

detectCycle(gr) == detectCycleFrom(gr, 1, <<>>, <<>>)

\* ---- TopologicalSort: Kahn's algorithm
RECURSIVE KahnLoop(_, _, _, _)
KahnLoop(gr, inDegree, queue, sorted) ==
    IF queue = <<>> THEN {sorted}
    ELSE LET node == Head(queue) IN
         UNION {LET st == Peel(order, 1, inDegree, Tail(queue))
                IN  KahnLoop(gr, st.inDegree, st.queue, Append(sorted, node))
                : order \in Perms(Get(gr.reverse, node))}

TopologicalSort(gr) ==
    LET inDegree == InitInDegree(gr) IN
    UNION {IF Len(sorted) # Cardinality(gr.nodes)
           THEN {[err |-> TRUE, sorted |-> <<>>, cycle |-> c] : c \in detectCycle(gr)}
           ELSE {[err |-> FALSE, sorted |-> sorted, cycle |-> <<>>]}
           : sorted \in KahnLoop(gr, inDegree, SeedZero(gr.ordered, inDegree), <<>>)}

\* ---- Layers: the same peeling, one wave per layer
RECURSIVE Wave(_, _, _, _, _)
Wave(gr, current, i, inDegree, next) ==
    IF i > Len(current) THEN {[inDegree |-> inDegree, next |-> next]}
    ELSE UNION {LET st == Peel(order, 1, inDegree, next)
                IN  Wave(gr, current, i + 1, st.inDegree, st.queue)
                : order \in Perms(Get(gr.reverse, current[i]))}

RECURSIVE LayersLoop(_, _, _, _, _)
LayersLoop(gr, inDegree, current, layers, visited) ==
    IF current = <<>> THEN {[layers |-> layers, visited |-> visited]}
    ELSE UNION {LayersLoop(gr, w.inDegree, w.next, Append(layers, current),
                           visited + Len(current))
                : w \in Wave(gr, current, 1, inDegree, <<>>)}

Layers(gr) ==
    LET inDegree == InitInDegree(gr) IN
    UNION {IF r.visited # Cardinality(gr.nodes)
           THEN {[err |-> TRUE, layers |-> <<>>, cycle |-> c] : c \in detectCycle(gr)}
           ELSE {[err |-> FALSE, layers |-> r.layers, cycle |-> <<>>]}
           : r \in LayersLoop(gr, inDegree, SeedZero(gr.ordered, inDegree), <<>>, 0)}

\* ---- TransitiveDependentsOf: BFS over the reverse edges, then sort
\* mutant: a found dependent is not queued, so only direct dependents are found
RECURSIVE BfsVisit_NoQueue(_, _, _, _, _)
BfsVisit_NoQueue(order, i, visited, result, queue) ==
    IF i > Len(order) THEN [visited |-> visited, result |-> result, queue |-> queue]
    ELSE IF order[i] \notin visited
         THEN BfsVisit_NoQueue(order, i + 1, visited \cup {order[i]},
                               Append(result, order[i]), queue)
         ELSE BfsVisit_NoQueue(order, i + 1, visited, result, queue)

RECURSIVE BfsVisit(_, _, _, _, _)
BfsVisit(order, i, visited, result, queue) ==
    IF i > Len(order) THEN [visited |-> visited, result |-> result, queue |-> queue]
    ELSE LET d == order[i] IN
         IF d \notin visited
         THEN BfsVisit(order, i + 1, visited \cup {d}, Append(result, d), Append(queue, d))
         ELSE BfsVisit(order, i + 1, visited, result, queue)

RECURSIVE BfsLoop(_, _, _, _)
BfsLoop(gr, visited, queue, result) ==
    IF queue = <<>> THEN {result}
    ELSE UNION {LET st == BfsVisit(order, 1, visited, result, Tail(queue))
                IN  BfsLoop(gr, st.visited, st.queue, st.result)
                : order \in Perms(Get(gr.reverse, Head(queue)))}

TransitiveDependentsOf(gr, id) ==
    IF id \notin gr.nodes THEN {<<>>}
    ELSE {SortStrings(r) : r \in BfsLoop(gr, {id}, <<id>>, <<>>)}

\* ---- Subgraph: the given nodes and the edges between them.  The node set
\* is the set of keys mapped to true (every caller builds it that way).
RECURSIVE SubNodes(_, _, _)
SubNodes(ordered, nodes, sub) ==
    IF ordered = <<>> THEN sub
    ELSE SubNodes(Tail(ordered), nodes,
                  IF Head(ordered) \in nodes THEN AddNode(sub, Head(ordered)) ELSE sub)

\* mutant: every edge of a kept node is copied, whatever its other endpoint
RECURSIVE SubEdgesOf_AnyTarget(_, _, _, _, _)
SubEdgesOf_AnyTarget(from, tos, i, nodes, sub) ==
    IF i > Len(tos) THEN sub
    ELSE SubEdgesOf_AnyTarget(from, tos, i + 1, nodes, AddEdge(sub, from, tos[i]))

\* for to := range g.edges[from] { if nodes[to] { sub.AddEdge(from, to) } }
RECURSIVE SubEdgesOf(_, _, _, _, _)
SubEdgesOf(from, tos, i, nodes, sub) ==
    IF i > Len(tos) THEN sub
    ELSE SubEdgesOf(from, tos, i + 1, nodes,
                    IF tos[i] \in nodes THEN AddEdge(sub, from, tos[i]) ELSE sub)

\* for from := range nodes { if !g.nodes[from] { continue }; ... }
RECURSIVE SubEdges(_, _, _, _, _)
SubEdges(gr, froms, i, nodes, sub) ==
    IF i > Len(froms) THEN {sub}
    ELSE IF froms[i] \notin gr.nodes THEN SubEdges(gr, froms, i + 1, nodes, sub)
    ELSE UNION {SubEdges(gr, froms, i + 1, nodes, SubEdgesOf(froms[i], tos, 1, nodes, sub))
                : tos \in Perms(Get(gr.edges, froms[i]))}

\* mutant: the kept nodes are copied without the edges between them
Subgraph_NoEdges(gr, nodes) == {[sub |-> SubNodes(gr.ordered, nodes, New), g |-> gr]}

Subgraph(gr, nodes) ==
    LET withNodes == SubNodes(gr.ordered, nodes, New)
    IN  {[sub |-> s, g |-> gr]
         : s \in UNION {SubEdges(gr, froms, 1, nodes, withNodes) : froms \in Perms(nodes)}}

\* --------------------------------------------- package build (manifest)
\* A fingerprint is a natural >= 1; 0 stands for the empty string.  Error text
\* is "" or "err".  Timestamps and the schema version are left out: nothing
\* in the orchestrator reads them.
NoManifest == [Repos |-> <<>>]
NoOpts == [pass |-> "none"]
NoPlan == [changed |-> {}, buildSet |-> {}, layers |-> <<>>, total |-> 0]
NoReturn == [err |-> "none"]

NewManifest == [Repos |-> <<>>]

\* json.MarshalIndent of one BuildState: error carries omitempty
MarshalState(bs) ==
    IF bs.Error = ""
    THEN [last_build_sha |-> bs.LastBuildSHA, status |-> bs.Status]
    ELSE [last_build_sha |-> bs.LastBuildSHA, status |-> bs.Status, error |-> bs.Error]

\* json.Unmarshal of one BuildState: a missing field keeps its zero value
UnmarshalState(doc) ==
    [LastBuildSHA |-> doc.last_build_sha,
     Status       |-> doc.status,
     Error        |-> IF "error" \in DOMAIN doc THEN doc.error ELSE ""]

\* mutant: nothing is written, the file stays as it is
Save_Skipped(m) == disk

\* Save writes the whole document
Save(m) ==
    [kind |-> "file", repos |-> [r \in DOMAIN m.Repos |-> MarshalState(m.Repos[r])]]

\* LoadManifest: (nil, nil) when the file is missing, an error when it cannot
\* be read or parsed
LoadManifest(file) ==
    IF file.kind = "missing" THEN [err |-> FALSE, nil |-> TRUE, m |-> NoManifest]
    ELSE IF file.kind = "corrupt" THEN [err |-> TRUE, nil |-> TRUE, m |-> NoManifest]
    ELSE [err |-> FALSE, nil |-> FALSE,
          m |-> [Repos |-> [r \in DOMAIN file.repos |-> UnmarshalState(file.repos[r])]]]

\* mutant: the entry is created when it is missing, as ensureState does
LastSHA_Ensure(m, repo) ==
    IF repo \in DOMAIN m.Repos THEN [sha |-> m.Repos[repo].LastBuildSHA, m |-> m]
    ELSE [sha |-> 0,
          m   |-> [m EXCEPT !.Repos = Put(m.Repos, repo,
                                         [LastBuildSHA |-> 0, Status |-> "pending", Error |-> ""])]]

\* LastSHA reads the entry without creating it; the manifest is returned to
\* show it is the one passed in
LastSHA(m, repo) ==
    [sha |-> IF repo \in DOMAIN m.Repos THEN m.Repos[repo].LastBuildSHA ELSE 0,
     m   |-> m]

ensureState(m, repo) ==
    IF repo \in DOMAIN m.Repos THEN m
    ELSE [m EXCEPT !.Repos = Put(m.Repos, repo,
                                 [LastBuildSHA |-> 0, Status |-> "pending", Error |-> ""])]

MarkSuccess(m, repo, sha) ==
    [ensureState(m, repo) EXCEPT
        !.Repos[repo] = [LastBuildSHA |-> sha, Status |-> "success", Error |-> ""]]

MarkFailed(m, repo, sha, buildErr) ==
    [ensureState(m, repo) EXCEPT
        !.Repos[repo] = [LastBuildSHA |-> sha, Status |-> "failed",
                         Error |-> IF buildErr # "" THEN buildErr ELSE @.Error]]

\* --------------------------------------------- package setup (manifest)
\* Status is "pending", "success", "failed" or "skipped"; a timestamp is a
\* natural, 0 the zero time.  JavaHome, SkipTests, StartedAt and the schema
\* version are left out: the passes do not read them.
NilManifest == [nil |-> TRUE, CompletedAt |-> 0, Repos |-> <<>>]

PendingState ==
    [CloneStatus |-> "pending", InstallStatus |-> "pending", CloneError |-> "",
     InstallError |-> "", CommitSHA |-> 0, LastAttempt |-> 0]

\* setup.NewManifest(repos): every repo pending
SetupNewManifest(rs) ==
    [nil |-> FALSE, CompletedAt |-> 0, Repos |-> [r \in Range(rs) |-> PendingState]]

\* json.MarshalIndent of one RepoState: the errors and the sha carry omitempty
SetupMarshalState(rs) ==
    LET base == [clone_status |-> rs.CloneStatus, install_status |-> rs.InstallStatus,
                 last_attempt |-> rs.LastAttempt]
        ce   == IF rs.CloneError = "" THEN base ELSE Put(base, "clone_error", rs.CloneError)
        ie   == IF rs.InstallError = "" THEN ce ELSE Put(ce, "install_error", rs.InstallError)
    IN  IF rs.CommitSHA = 0 THEN ie ELSE Put(ie, "commit_sha", rs.CommitSHA)

\* mutant: the install error is not read back
SetupUnmarshalState_NoInstallError(doc) ==
    [CloneStatus   |-> doc.clone_status,
     InstallStatus |-> doc.install_status,
     CloneError    |-> IF "clone_error" \in DOMAIN doc THEN doc.clone_error ELSE "",
     InstallError  |-> "",
     CommitSHA     |-> IF "commit_sha" \in DOMAIN doc THEN doc.commit_sha ELSE 0,
     LastAttempt   |-> doc.last_attempt]

\* json.Unmarshal of one RepoState: a missing field keeps its zero value
SetupUnmarshalState(doc) ==
    [CloneStatus   |-> doc.clone_status,
     InstallStatus |-> doc.install_status,
     CloneError    |-> IF "clone_error" \in DOMAIN doc THEN doc.clone_error ELSE "",
     InstallError  |-> IF "install_error" \in DOMAIN doc THEN doc.install_error ELSE "",
     CommitSHA     |-> IF "commit_sha" \in DOMAIN doc THEN doc.commit_sha ELSE 0,
     LastAttempt   |-> doc.last_attempt]

SetupSave(m) ==
    [kind |-> "file", completed_at |-> m.CompletedAt,
     repos |-> [r \in DOMAIN m.Repos |-> SetupMarshalState(m.Repos[r])]]

SetupLoadManifest(file) ==
    IF file.kind = "missing" THEN [err |-> FALSE, m |-> NilManifest]
    ELSE IF file.kind = "corrupt" THEN [err |-> TRUE, m |-> NilManifest]
    ELSE [err |-> FALSE,
          m |-> [nil |-> FALSE, CompletedAt |-> file.completed_at,
                 Repos |-> [r \in DOMAIN file.repos |-> SetupUnmarshalState(file.repos[r])]]]

\* Repo returns the state for a repo, creating it if absent
Repo(m, name) ==
    IF name \in DOMAIN m.Repos THEN [rs |-> m.Repos[name], m |-> m]
    ELSE [rs |-> PendingState, m |-> [m EXCEPT !.Repos = Put(m.Repos, name, PendingState)]]

MarkClone(m, repo, err, now) ==
    [Repo(m, repo).m EXCEPT
        !.Repos[repo].LastAttempt = now,
        !.Repos[repo].CloneStatus = IF err # "" THEN "failed" ELSE "success",
        !.Repos[repo].CloneError = err]

MarkCloneSkipped(m, repo, now) ==
    [Repo(m, repo).m EXCEPT
        !.Repos[repo].CloneStatus = "skipped",
        !.Repos[repo].LastAttempt = now]

MarkInstall(m, repo, err, now) ==
    [Repo(m, repo).m EXCEPT
        !.Repos[repo].LastAttempt = now,
        !.Repos[repo].InstallStatus = IF err # "" THEN "failed" ELSE "success",
        !.Repos[repo].InstallError = err]

MarkInstallSkipped(m, repo, now) ==
    [Repo(m, repo).m EXCEPT
        !.Repos[repo].InstallStatus = "skipped",
        !.Repos[repo].LastAttempt = now]

\* manifest.Repo(repo).CommitSHA = sha
SetCommitSHA(m, repo, sha) ==
    [Repo(m, repo).m EXCEPT !.Repos[repo].CommitSHA = sha]

\* MarkComplete: the completion marker is the current time
MarkComplete(m, now) == [m EXCEPT !.CompletedAt = now]

\* PendingInstalls: the repos whose install status is pending or failed (the
\* caller only makes a set of the slice, so its map order does not matter)
PendingInstalls(m) ==
    {r \in DOMAIN m.Repos : m.Repos[r].InstallStatus \in {"pending", "failed"}}

\* FailedInstalls: the repos whose install status is failed
FailedInstalls(m) == {r \in DOMAIN m.Repos : m.Repos[r].InstallStatus = "failed"}

\* IsComplete: every phase of every repo is success or skipped, and the
\* completion marker is set
IsComplete(m) ==
    /\ \A r \in DOMAIN m.Repos :
          /\ m.Repos[r].CloneStatus \in {"success", "skipped"}
          /\ m.Repos[r].InstallStatus \in {"success", "skipped"}
    /\ m.CompletedAt # 0

\* Summary: success and skipped count as ok, failed as failed, anything else
\* as pending
Summary(m) ==
    LET n(S) == Cardinality(S)
        rs   == DOMAIN m.Repos
    IN  [Total           |-> n(rs),
         ClonesOK        |-> n({r \in rs : m.Repos[r].CloneStatus \in {"success", "skipped"}}),
         ClonesFailed    |-> n({r \in rs : m.Repos[r].CloneStatus = "failed"}),
         ClonesPending   |-> n({r \in rs : m.Repos[r].CloneStatus \notin {"success", "skipped", "failed"}}),
         InstallsOK      |-> n({r \in rs : m.Repos[r].InstallStatus \in {"success", "skipped"}}),
         InstallsFailed  |-> n({r \in rs : m.Repos[r].InstallStatus = "failed"}),
         InstallsPending |-> n({r \in rs : m.Repos[r].InstallStatus \notin {"success", "skipped", "failed"}})]

\* mutant: the error text of a reset phase is left in place
ResetFailed_KeepsError(m) ==
    [m EXCEPT
        !.CompletedAt = 0,
        !.Repos = [r \in DOMAIN m.Repos |->
            [m.Repos[r] EXCEPT
                !.CloneStatus = IF @ = "failed" THEN "pending" ELSE @,
                !.InstallStatus = IF @ = "failed" THEN "pending" ELSE @]]]

\* ResetFailed: failed phases go back to pending with their error cleared, and
\* the completion marker is cleared
ResetFailed(m) ==
    [m EXCEPT
        !.CompletedAt = 0,
        !.Repos = [r \in DOMAIN m.Repos |->
            LET rs == m.Repos[r] IN
            [rs EXCEPT
                !.CloneStatus = IF rs.CloneStatus = "failed" THEN "pending" ELSE @,
                !.CloneError = IF rs.CloneStatus = "failed" THEN "" ELSE @,
                !.InstallStatus = IF rs.InstallStatus = "failed" THEN "pending" ELSE @,
                !.InstallError = IF rs.InstallStatus = "failed" THEN "" ELSE @]]]

\* ResetAll: every repo back to pending, errors, fingerprints and the
\* completion marker cleared
ResetAll(m) ==
    [m EXCEPT
        !.CompletedAt = 0,
        !.Repos = [r \in DOMAIN m.Repos |->
            [m.Repos[r] EXCEPT
                !.CloneStatus = "pending", !.CloneError = "",
                !.InstallStatus = "pending", !.InstallError = "", !.CommitSHA = 0]]]

\* ------------------------------------------------------- the environment
\* os.Stat(dir): the repository is cloned
DirExists(env, repo) == env[repo].dir

\* os.Stat(dir/pom.xml)
PomExists(env, repo) == env[repo].pom

\* git.HeadSHA(dir): the HEAD fingerprint, or an error (sha 0) when the
\* directory is missing or git cannot read it
HeadSHA(env, repo) ==
    IF env[repo].dir /\ env[repo].sha # 0
    THEN [sha |-> env[repo].sha, err |-> FALSE]
    ELSE [sha |-> 0, err |-> TRUE]

\* git.HeadCommit(dir): git rev-parse --short HEAD
HeadCommit(env, repo) ==
    IF env[repo].dir /\ env[repo].sha # 0
    THEN [sha |-> env[repo].sha, err |-> FALSE]
    ELSE [sha |-> 0, err |-> TRUE]

\* time.Now(): later in a later pass, and later at a later node of a pass
Now(run, i) == run * (MaxNodes + 1) + i

\* ------------------------------------------------ package build (change.go)
RECURSIVE DetectChangesFrom(_, _, _, _, _)
DetectChangesFrom(nodes, i, env, m, changed) ==
    IF i > Len(nodes) THEN [changed |-> changed, m |-> m]
    ELSE LET repo == nodes[i] IN
         IF ~DirExists(env, repo) THEN DetectChangesFrom(nodes, i + 1, env, m, changed)
         ELSE IF HeadSHA(env, repo).err
              THEN DetectChangesFrom(nodes, i + 1, env, m, changed \cup {repo})
              ELSE LET last == LastSHA(m, repo) IN
                   DetectChangesFrom(nodes, i + 1, env, last.m,
                       IF last.sha = 0 \/ last.sha # HeadSHA(env, repo).sha
                       THEN changed \cup {repo} ELSE changed)

DetectChanges(gr, env, m) == DetectChangesFrom(Nodes(gr), 1, env, m, {})

\* for repo := range changed { for _, dep := range TransitiveDependentsOf(repo) { affected[dep] = true } }
RECURSIVE ExpandChanged(_, _, _, _)
ExpandChanged(gr, order, i, affected) ==
    IF i > Len(order) THEN {affected}
    ELSE UNION {ExpandChanged(gr, order, i + 1, affected \cup Range(deps))
                : deps \in TransitiveDependentsOf(gr, order[i])}

\* mutant: the changed repos are not expanded to their dependents
TransitiveClosure_ChangedOnly(gr, changed) == {changed}

TransitiveClosure(gr, changed) ==
    UNION {ExpandChanged(gr, order, 1, changed) : order \in Perms(changed)}

\* ------------------------------------------------------------- SpecGraph
\* Graph construction by AddNode/AddEdge calls, and the graph queries applied
\* to the graph built so far; `out` holds the last query's arguments and result.
NoCall == [op |-> "none"]

buildVars == <<fw, repos, disk, pc, manifest, opts, plan, idx, results, calls, ret, runs, commits,
              setup, setupDisk, session, deployed>>

vars == <<g, out, buildVars>>

InitGraph ==
    /\ g = New
    /\ out = NoCall
    /\ fw = New
    /\ repos = <<>>
    /\ disk = [kind |-> "missing"]
    /\ pc = "idle"
    /\ manifest = NoManifest
    /\ opts = NoOpts
    /\ plan = NoPlan
    /\ idx = 0
    /\ results = <<>>
    /\ calls = <<>>
    /\ ret = NoReturn
    /\ runs = 0
    /\ commits = 0
    /\ setup = NilManifest
    /\ setupDisk = [kind |-> "missing"]
    /\ session = "none"
    /\ deployed = NoDeploys

CallAddNode(id) ==
    /\ g' = AddNode(g, id)
    /\ out' = NoCall
    /\ UNCHANGED buildVars

CallAddEdge(from, to) ==
    /\ Cardinality(EdgesOf(g) \cup {<<from, to>>}) <= MaxEdges
    /\ g' = AddEdge(g, from, to)
    /\ out' = NoCall
    /\ UNCHANGED buildVars

CallTopologicalSort ==
    /\ out = NoCall
    /\ \E r \in TopologicalSort(g) : out' = [op |-> "TopologicalSort", res |-> r]
    /\ UNCHANGED <<g, buildVars>>

CallLayers ==
    /\ out = NoCall
    /\ \E r \in Layers(g) : out' = [op |-> "Layers", res |-> r]
    /\ UNCHANGED <<g, buildVars>>

CallTransitiveDependentsOf(id) ==
    /\ out = NoCall
    /\ \E r \in TransitiveDependentsOf(g, id) :
          out' = [op |-> "TransitiveDependentsOf", id |-> id, res |-> r]
    /\ UNCHANGED <<g, buildVars>>

CallSubgraph(nodes) ==
    /\ out = NoCall
    /\ \E r \in Subgraph(g, nodes) :
       /\ out' = [op |-> "Subgraph", nodes |-> nodes, before |-> g, res |-> r.sub]
       /\ g' = r.g
    /\ UNCHANGED buildVars

CallTransitiveClosure(changed) ==
    /\ out = NoCall
    /\ \E r \in TransitiveClosure(g, changed) : \E r2 \in TransitiveClosure(g, r) :
          out' = [op |-> "TransitiveClosure", changed |-> changed, res |-> r, again |-> r2]
    /\ UNCHANGED <<g, buildVars>>

NextGraph ==
    \/ \E id \in Ids : CallAddNode(id)
    \/ \E from, to \in Ids : CallAddEdge(from, to)
    \/ CallTopologicalSort
    \/ CallLayers
    \/ \E id \in QueryIds : CallTransitiveDependentsOf(id)
    \/ \E nodes \in SUBSET QueryIds : CallSubgraph(nodes)
    \/ \E changed \in SUBSET QueryIds : CallTransitiveClosure(changed)

SpecGraph == InitGraph /\ [][NextGraph]_vars

\* ----------------------------------------------------- dag.FrameworkGraph
\* FrameworkGraph() wires 41 repositories with AddNode/AddEdge calls.  The
\* orchestrator is run over three-repository excerpts of it, each built by the
\* calls FrameworkGraph makes for those repositories, in its call order:
\*   parent(1) <- utils(2) <- r2dbc(3)                       a chain
\*   parent(1) <- observability(2) <- eda(3), parent <- eda  eda is added before observability
\*   parent(1) <- kernel(2), parent(1) <- bom(3)             two dependents of one root
\*   cache(1), validators(2) <- cqrs(3)                      one dependent of two roots
\*   parent(1) <- kernel(2) <- utils(3), parent <- utils     a direct and a transitive path
\*   kernel(1) <- utils(2), ecm(3)                           a repository outside the path
FrameworkGraphs ==
    {AddEdge(AddEdge(AddNode(New, 1), 2, 1), 3, 2),
     AddEdge(AddEdge(AddEdge(AddNode(New, 1), 3, 1), 2, 1), 3, 2),
     AddEdge(AddEdge(AddNode(New, 1), 2, 1), 3, 1),
     AddEdge(AddEdge(AddNode(AddNode(New, 1), 2), 3, 1), 3, 2),
     AddEdge(AddEdge(AddEdge(AddNode(New, 1), 2, 1), 3, 1), 3, 2),
     AddNode(AddEdge(AddNode(New, 1), 2, 1), 3)}

Repos == 1..3

\* ------------------------------------------- package build (builder.go)
TargetLists == {<<>>, <<1>>, <<2>>, <<3>>, <<Unknown>>, <<2, Unknown>>, <<2, 3>>}

BuildOptionsSet ==
    [pass : {"build"}, ForceAll : BOOLEAN, TargetRepos : TargetLists, DryRun : BOOLEAN]

\* lines 77-85: every node under ForceAll, else the closure of the changes
BuildSets(gr, env, m, o) ==
    IF o.ForceAll
    THEN {[changed |-> {}, m |-> m, buildSet |-> Range(Nodes(gr))]}
    ELSE LET d == DetectChanges(gr, env, m)
         IN  {[changed |-> d.changed, m |-> d.m, buildSet |-> a]
              : a \in TransitiveClosure(gr, d.changed)}

\* lines 90-98: the targets and their transitive dependents, or an error at
\* the first target that is no node
RECURSIVE TargetLoop(_, _, _, _)
TargetLoop(gr, targets, i, targeted) ==
    IF i > Len(targets) THEN {[err |-> FALSE, targeted |-> targeted]}
    ELSE IF ~HasNode(gr, targets[i]) THEN {[err |-> TRUE, targeted |-> targeted]}
    ELSE UNION {TargetLoop(gr, targets, i + 1, targeted \cup {targets[i]} \cup Range(deps))
                : deps \in TransitiveDependentsOf(gr, targets[i])}

\* mutant: the targets are not intersected with the change-derived set
ScopeToTargets_NoIntersect(gr, o, buildSet) ==
    IF Len(o.TargetRepos) > 0
    THEN {[err |-> t.err, buildSet |-> t.targeted]
          : t \in TargetLoop(gr, o.TargetRepos, 1, {})}
    ELSE {[err |-> FALSE, buildSet |-> buildSet]}

\* lines 88-109: scope the build set to the targets
ScopeToTargets(gr, o, buildSet) ==
    IF Len(o.TargetRepos) > 0
    THEN {[err |-> t.err,
           buildSet |-> IF ~o.ForceAll THEN t.targeted \cap buildSet ELSE t.targeted]
          : t \in TargetLoop(gr, o.TargetRepos, 1, {})}
    ELSE {[err |-> FALSE, buildSet |-> buildSet]}

RECURSIVE SumLen(_)
SumLen(ls) == IF ls = <<>> THEN 0 ELSE Len(Head(ls)) + SumLen(Tail(ls))

\* lines 112-122: the layers of the subgraph of the build set, and their size
LayerPlans(gr, buildSet) ==
    UNION {{[err |-> l.err, layers |-> l.layers, total |-> SumLen(l.layers)]
            : l \in Layers(sg.sub)}
           : sg \in Subgraph(gr, buildSet)}

\* lines 74-122: what RunDAGBuild plans before its loop
PlanBuild(gr, env, m, o) ==
    UNION {UNION {IF sc.err
                  THEN {[err |-> "unknown repository", changed |-> bs.changed, m |-> bs.m,
                         buildSet |-> {}, layers |-> <<>>, total |-> 0]}
                  ELSE {[err |-> IF lp.err THEN "failed to compute build layers" ELSE "none",
                         changed |-> bs.changed, m |-> bs.m, buildSet |-> sc.buildSet,
                         layers |-> lp.layers, total |-> lp.total]
                        : lp \in LayerPlans(gr, sc.buildSet)}
                  : sc \in ScopeToTargets(gr, o, bs.buildSet)}
           : bs \in BuildSets(gr, env, m, o)}

\* the layer index the range loops are at when the k-th node is reached
RECURSIVE LayerIndexAt(_, _, _)
LayerIndexAt(layers, k, layerIdx) ==
    IF k <= Len(Head(layers)) THEN layerIdx
    ELSE LayerIndexAt(Tail(layers), k - Len(Head(layers)), layerIdx + 1)

\* lines 126-132: a dry run reports every planned repo and builds nothing
RECURSIVE DryResults(_)
DryResults(flat) ==
    IF flat = <<>> THEN <<>>
    ELSE <<[Repo |-> Head(flat), Skipped |-> FALSE, Error |-> ""]>> \o DryResults(Tail(flat))

\* mutant: onDone is delivered where the save should be, and the save after it
Event_DoneBeforeSave(ev, layer, repo, i, total) ==
    [ev |-> IF ev = "save" THEN "onDone" ELSE IF ev = "onDone" THEN "save" ELSE ev,
     layer |-> layer, repo |-> repo, idx |-> i, total |-> total]

Event(ev, layer, repo, i, total) ==
    [ev |-> ev, layer |-> layer, repo |-> repo, idx |-> i, total |-> total]

\* lines 63-136: load the manifest, plan, and either return or enter the loop
RunDAGBuildStart(o) ==
    /\ session = "build"
    /\ pc = "idle"
    /\ out = NoCall
    /\ runs < MaxRuns
    /\ runs' = runs + 1
    /\ opts' = o
    /\ idx' = 0
    /\ calls' = <<>>
    /\ LET ld == LoadManifest(disk) IN
       IF ld.err
       THEN /\ pc' = "returned"
            /\ ret' = [err |-> "failed to load build manifest"]
            /\ UNCHANGED <<manifest, plan, results>>
       ELSE \E p \in PlanBuild(fw, repos, IF ld.nil THEN NewManifest ELSE ld.m, o) :
               /\ manifest' = p.m
               /\ plan' = [changed |-> p.changed, buildSet |-> p.buildSet,
                           layers |-> p.layers, total |-> p.total]
               /\ IF p.err # "none"
                  THEN /\ pc' = "returned"
                       /\ ret' = [err |-> p.err]
                       /\ UNCHANGED results
                  ELSE IF o.DryRun
                  THEN /\ pc' = "returned"
                       /\ ret' = [err |-> "none"]
                       /\ results' = DryResults(Flatten(p.layers))
                  ELSE /\ pc' = "build"
                       /\ UNCHANGED <<ret, results>>
    /\ UNCHANGED <<g, out, fw, repos, disk, commits, setup, setupDisk, session, deployed>>

\* lines 139-187: one iteration of the loop over the layers' repos
RunDAGBuildNode ==
    /\ pc = "build"
    /\ idx < plan.total
    /\ LET i        == idx + 1
           repo     == Flatten(plan.layers)[i]
           layerIdx == LayerIndexAt(plan.layers, i, 0)
           started  == Append(calls, Event("onStart", layerIdx, repo, i, plan.total))
       IN
       /\ idx' = i
       /\ IF ~PomExists(repos, repo)
          THEN /\ results' = Append(results, [Repo |-> repo, Skipped |-> TRUE, Error |-> ""])
               /\ calls' = Append(started, Event("onDone", layerIdx, repo, i, plan.total))
               /\ UNCHANGED <<manifest, disk>>
          ELSE \E buildErr \in {"", "err"} :
               LET sha == HeadSHA(repos, repo).sha
                   m2  == IF buildErr # "" THEN MarkFailed(manifest, repo, sha, buildErr)
                          ELSE MarkSuccess(manifest, repo, sha)
               IN  /\ manifest' = m2
                   /\ results' = Append(results, [Repo |-> repo, Skipped |-> FALSE, Error |-> buildErr])
                   /\ disk' = Save(m2)
                   /\ calls' = started \o
                         <<Event("exec", layerIdx, repo, i, plan.total),
                           Event("mark", layerIdx, repo, i, plan.total),
                           Event("save", layerIdx, repo, i, plan.total),
                           Event("onDone", layerIdx, repo, i, plan.total)>>
    /\ UNCHANGED <<g, out, fw, repos, pc, opts, plan, ret, runs, commits, setup, setupDisk, session, deployed>>

\* mutant: the loop is left at the first failed build, with an error
RunDAGBuildReturn_FailFast ==
    /\ pc = "build"
    /\ \/ idx = plan.total
       \/ idx > 0 /\ results[idx].Error # ""
    /\ pc' = "returned"
    /\ ret' = [err |-> IF idx = plan.total THEN "none" ELSE "build failed"]
    /\ UNCHANGED <<g, out, fw, repos, disk, manifest, opts, plan, idx, results, calls, runs, commits,
                   setup, setupDisk, session, deployed>>

\* line 190
RunDAGBuildReturn ==
    /\ pc = "build"
    /\ idx = plan.total
    /\ pc' = "returned"
    /\ ret' = [err |-> "none"]
    /\ UNCHANGED <<g, out, fw, repos, disk, manifest, opts, plan, idx, results, calls, runs, commits,
                   setup, setupDisk, session, deployed>>

\* ---------------------------------------- package setup (cloner.go)
\* the manifest the caller hands to a pass: none, or the one on disk, or a
\* fresh one when there is none on disk
CallerManifest(withManifest) ==
    IF ~withManifest THEN NilManifest
    ELSE LET ld == SetupLoadManifest(setupDisk)
         IN  IF ld.err \/ ld.m.nil THEN SetupNewManifest(Nodes(fw)) ELSE ld.m

\* lines 108-117: compute the layers of the whole graph
CloneAllDAGStart(withManifest) ==
    /\ session = "setup"
    /\ pc = "idle"
    /\ out = NoCall
    /\ runs < MaxRuns
    /\ runs' = runs + 1
    /\ opts' = [pass |-> "clone", withManifest |-> withManifest]
    /\ setup' = CallerManifest(withManifest)
    /\ idx' = 0
    /\ calls' = <<>>
    /\ results' = <<>>
    /\ \E l \in Layers(fw) :
          IF l.err
          THEN /\ pc' = "returned"
               /\ ret' = [err |-> "cycle"]
               /\ UNCHANGED plan
          ELSE /\ pc' = "clone"
               /\ plan' = [changed |-> {}, buildSet |-> {}, layers |-> l.layers,
                           total |-> NodeCount(fw)]
               /\ UNCHANGED ret
    /\ UNCHANGED <<g, out, fw, repos, disk, manifest, commits, setupDisk, session, deployed>>

\* what a successful clone leaves in the repositories directory
ClonedKinds == {[dir |-> TRUE, pom |-> TRUE, sha |-> 1], [dir |-> TRUE, pom |-> FALSE, sha |-> 1]}

\* lines 119-167: one iteration of the loop over the layers' repos
CloneAllDAGNode ==
    /\ pc = "clone"
    /\ idx < SumLen(plan.layers)
    /\ LET i        == idx + 1
           repo     == Flatten(plan.layers)[i]
           layerIdx == LayerIndexAt(plan.layers, i, 0)
           now      == Now(runs, i)
           looked   == IF setup.nil THEN setup ELSE Repo(setup, repo).m
           cb       == Event("onDone", layerIdx, repo, i, plan.total)
       IN
       /\ idx' = i
       /\ IF ~setup.nil /\ Repo(setup, repo).rs.CloneStatus \in {"success", "skipped"}
          THEN /\ results' = Append(results, [Repo |-> repo, Skipped |-> TRUE, Error |-> ""])
               /\ calls' = Append(calls, cb)
               /\ setup' = looked
               /\ UNCHANGED <<repos, setupDisk>>
          ELSE IF DirExists(repos, repo)
          THEN LET marked == IF setup.nil THEN setup
                             ELSE LET m1 == MarkCloneSkipped(looked, repo, now)
                                      hc == HeadCommit(repos, repo)
                                  IN  IF ~hc.err THEN SetCommitSHA(m1, repo, hc.sha) ELSE m1
               IN  /\ results' = Append(results, [Repo |-> repo, Skipped |-> TRUE, Error |-> ""])
                   /\ setup' = marked
                   /\ setupDisk' = IF setup.nil THEN setupDisk ELSE SetupSave(marked)
                   /\ calls' = calls \o
                         (IF setup.nil THEN <<>>
                          ELSE <<Event("mark", layerIdx, repo, i, plan.total),
                                 Event("save", layerIdx, repo, i, plan.total)>>) \o <<cb>>
                   /\ UNCHANGED repos
          ELSE \E cloneErr \in {"", "err"} : \E kind \in ClonedKinds :
               LET env2   == IF cloneErr = "" THEN [repos EXCEPT ![repo] = kind] ELSE repos
                   marked == IF setup.nil THEN setup
                             ELSE LET m1 == MarkClone(looked, repo, cloneErr, now)
                                      hc == HeadCommit(env2, repo)
                                  IN  IF cloneErr = "" /\ ~hc.err
                                      THEN SetCommitSHA(m1, repo, hc.sha) ELSE m1
               IN  /\ repos' = env2
                   /\ results' = Append(results, [Repo |-> repo, Skipped |-> FALSE, Error |-> cloneErr])
                   /\ setup' = marked
                   /\ setupDisk' = IF setup.nil THEN setupDisk ELSE SetupSave(marked)
                   /\ calls' = Append(calls, Event("exec", layerIdx, repo, i, plan.total)) \o
                         (IF setup.nil THEN <<>>
                          ELSE <<Event("mark", layerIdx, repo, i, plan.total),
                                 Event("save", layerIdx, repo, i, plan.total)>>) \o <<cb>>
    /\ UNCHANGED <<g, out, fw, disk, pc, manifest, opts, plan, ret, runs, commits, session, deployed>>

\* line 170
CloneAllDAGReturn ==
    /\ pc = "clone"
    /\ idx = SumLen(plan.layers)
    /\ pc' = "returned"
    /\ ret' = [err |-> "none"]
    /\ UNCHANGED <<g, out, fw, repos, disk, manifest, opts, plan, idx, results, calls, runs, commits,
                   setup, setupDisk, session, deployed>>

\* -------------------------------------- package setup (installer.go)
NoFilter == [nil |-> TRUE, set |-> {}]

Filters == {NoFilter} \cup {[nil |-> FALSE, set |-> S] : S \in {{}, {1}, {2, 3}}}

\* mutant: the filter is ignored
InFilter_Always(reposFilter, repo) == TRUE

\* line 71: !(reposFilter != nil && !reposFilter[repo])
InFilter(reposFilter, repo) == reposFilter.nil \/ repo \in reposFilter.set

\* mutant: a recorded success is never a reason to skip
AlreadyInstalled_Never(m, reposFilter, repo) == FALSE

\* lines 81-83: manifest != nil && reposFilter == nil, and the repo's install
\* status is success
AlreadyInstalled(m, reposFilter, repo) ==
    ~m.nil /\ reposFilter.nil /\ Repo(m, repo).rs.InstallStatus = "success"

\* lines 54-63: compute the layers of the whole graph
InstallAllDAGStart(withManifest, reposFilter) ==
    /\ session = "setup"
    /\ pc = "idle"
    /\ out = NoCall
    /\ runs < MaxRuns
    /\ runs' = runs + 1
    /\ opts' = [pass |-> "install", withManifest |-> withManifest, reposFilter |-> reposFilter]
    /\ setup' = CallerManifest(withManifest)
    /\ idx' = 0
    /\ calls' = <<>>
    /\ results' = <<>>
    /\ \E l \in Layers(fw) :
          IF l.err
          THEN /\ pc' = "returned"
               /\ ret' = [err |-> "cycle"]
               /\ UNCHANGED plan
          ELSE /\ pc' = "install"
               /\ plan' = [changed |-> {}, buildSet |-> {}, layers |-> l.layers,
                           total |-> NodeCount(fw)]
               /\ UNCHANGED ret
    /\ UNCHANGED <<g, out, fw, repos, disk, manifest, commits, setupDisk, session, deployed>>

\* lines 65-125: one iteration of the loop over the layers' repos
InstallAllDAGNode ==
    /\ pc = "install"
    /\ idx < SumLen(plan.layers)
    /\ LET i        == idx + 1
           repo     == Flatten(plan.layers)[i]
           layerIdx == LayerIndexAt(plan.layers, i, 0)
           now      == Now(runs, i)
           filter   == opts.reposFilter
           looked   == Repo(setup, repo).m
           done     == Event("onDone", layerIdx, repo, i, plan.total)
       IN
       /\ idx' = i
       /\ IF ~InFilter(filter, repo)
          THEN /\ results' = Append(results, [Repo |-> repo, Skipped |-> TRUE, Error |-> ""])
               /\ calls' = Append(calls, done)
               /\ UNCHANGED <<setup, setupDisk>>
          ELSE IF AlreadyInstalled(setup, filter, repo)
          THEN /\ results' = Append(results, [Repo |-> repo, Skipped |-> TRUE, Error |-> ""])
               /\ calls' = Append(calls, done)
               /\ setup' = looked
               /\ UNCHANGED setupDisk
          ELSE \E outcome \in {"", "err"} :
               LET hasPom     == PomExists(repos, repo)
                   installErr == IF hasPom THEN outcome ELSE ""
                   base       == IF setup.nil THEN setup
                                 ELSE IF filter.nil THEN looked ELSE setup
                   skipped    == IF ~hasPom /\ ~setup.nil
                                 THEN MarkInstallSkipped(base, repo, now) ELSE base
                   marked     == IF setup.nil THEN setup
                                 ELSE MarkInstall(skipped, repo, installErr, now)
               IN  /\ hasPom \/ outcome = ""
                   /\ results' = Append(results, [Repo |-> repo, Skipped |-> FALSE, Error |-> installErr])
                   /\ setup' = marked
                   /\ setupDisk' = IF setup.nil THEN setupDisk ELSE SetupSave(marked)
                   /\ calls' = Append(calls, Event("onStart", layerIdx, repo, i, plan.total)) \o
                         (IF hasPom THEN <<Event("exec", layerIdx, repo, i, plan.total)>> ELSE <<>>) \o
                         (IF setup.nil THEN <<>>
                          ELSE <<Event("mark", layerIdx, repo, i, plan.total),
                                 Event("save", layerIdx, repo, i, plan.total)>>) \o <<done>>
    /\ UNCHANGED <<g, out, fw, repos, disk, pc, manifest, opts, plan, ret, runs, commits, session, deployed>>

\* line 128
InstallAllDAGReturn ==
    /\ pc = "install"
    /\ idx = SumLen(plan.layers)
    /\ pc' = "returned"
    /\ ret' = [err |-> "none"]
    /\ UNCHANGED <<g, out, fw, repos, disk, manifest, opts, plan, idx, results, calls, runs, commits,
                   setup, setupDisk, session, deployed>>

\* the process ends: everything but the files is gone
Exit ==
    /\ pc = "returned" \/ out # NoCall
    /\ pc' = "idle"
    /\ out' = NoCall
    /\ manifest' = NoManifest
    /\ opts' = NoOpts
    /\ plan' = NoPlan
    /\ idx' = 0
    /\ results' = <<>>
    /\ calls' = <<>>
    /\ ret' = NoReturn
    /\ setup' = NilManifest
    /\ UNCHANGED <<g, fw, repos, disk, runs, commits, setupDisk, session, deployed>>

\* between two runs a repository gets a new HEAD
Commit(repo) ==
    /\ session = "build"
    /\ pc = "idle"
    /\ out = NoCall
    /\ commits < MaxCommits
    /\ ~HeadSHA(repos, repo).err
    /\ repos' = [repos EXCEPT ![repo].sha = @ + 1]
    /\ commits' = commits + 1
    /\ UNCHANGED <<g, out, fw, disk, pc, manifest, opts, plan, idx, results, calls, ret, runs,
                   setup, setupDisk, session, deployed>>

\* DetectChanges applied twice in a row to the manifest on disk
CallDetectChanges ==
    /\ session = "build"
    /\ pc = "idle"
    /\ out = NoCall
    /\ LET ld  == LoadManifest(disk)
           m0  == IF ld.err \/ ld.nil THEN NewManifest ELSE ld.m
           d1  == DetectChanges(fw, repos, m0)
           d2  == DetectChanges(fw, repos, d1.m)
       IN  out' = [op |-> "DetectChanges", m |-> m0, first |-> d1.changed,
                   after |-> d1.m, second |-> d2.changed]
    /\ UNCHANGED <<g, buildVars>>

\* a repository is not cloned, has no pom.xml, has an unreadable HEAD, or is
\* ready to build
RepoKinds ==
    {[dir |-> FALSE, pom |-> FALSE, sha |-> 0],
     [dir |-> TRUE,  pom |-> FALSE, sha |-> 1],
     [dir |-> TRUE,  pom |-> TRUE,  sha |-> 0],
     [dir |-> TRUE,  pom |-> TRUE,  sha |-> 1]}

ReadyRepo == [dir |-> TRUE, pom |-> TRUE, sha |-> 1]

Environments ==
    {env \in [Repos -> RepoKinds] :
        Cardinality({r \in Repos : env[r] # ReadyRepo}) <= MaxAbnormal}

\* A run is a sequence of flywork build passes or of flywork setup passes:
\* the two commands share nothing but the repositories directory, whose states
\* Environments enumerates.
Init ==
    /\ g = New
    /\ out = NoCall
    /\ fw \in FrameworkGraphs
    /\ repos \in Environments
    /\ pc = "idle"
    /\ manifest = NoManifest
    /\ opts = NoOpts
    /\ plan = NoPlan
    /\ idx = 0
    /\ results = <<>>
    /\ calls = <<>>
    /\ ret = NoReturn
    /\ runs = 0
    /\ commits = 0
    /\ setup = NilManifest
    /\ session \in {"build", "setup"}
    /\ deployed = NoDeploys
    /\ disk \in (IF session = "build" THEN {[kind |-> "missing"], [kind |-> "corrupt"]}
                 ELSE {[kind |-> "missing"]})
    /\ setupDisk \in (IF session = "setup" THEN {[kind |-> "missing"], [kind |-> "corrupt"]}
                      ELSE {[kind |-> "missing"]})

Next ==
    \/ \E o \in BuildOptionsSet : RunDAGBuildStart(o)
    \/ RunDAGBuildNode
    \/ RunDAGBuildReturn
    \/ \E withManifest \in BOOLEAN : CloneAllDAGStart(withManifest)
    \/ CloneAllDAGNode
    \/ CloneAllDAGReturn
    \/ \E withManifest \in BOOLEAN, reposFilter \in Filters :
          InstallAllDAGStart(withManifest, reposFilter)
    \/ InstallAllDAGNode
    \/ InstallAllDAGReturn
    \/ Exit
    \/ \E repo \in Repos : Commit(repo)
    \/ CallDetectChanges

Spec == Init /\ [][Next]_vars

\* ------------------------------------------------ flywork setup (setup.go)
\* the command's flags and the answers the user gives to its prompts
SetupFlags == {"default", "retry", "fresh"}
Choices == {"Resume", "Retry", "Fresh"}

\* lines 127-181: which manifest the run works on.  stop is "none" when the
\* run goes on, "error" when it returns an error, "quit" when the user does
\* not want to run a completed setup again
Phase1(file, flag, choice, again, order) ==
    LET ld    == SetupLoadManifest(file)
        fresh == SetupNewManifest(order)
    IN  IF flag = "retry"
        THEN IF ld.err \/ ld.m.nil
             THEN [stop |-> "error", retryMode |-> FALSE, m |-> NilManifest]
             ELSE [stop |-> "none", retryMode |-> TRUE, m |-> ResetFailed(ld.m)]
        ELSE IF flag = "fresh" \/ ld.err \/ ld.m.nil
        THEN [stop |-> "none", retryMode |-> FALSE, m |-> fresh]
        ELSE IF ~IsComplete(ld.m)
        THEN IF choice = "Resume" THEN [stop |-> "none", retryMode |-> FALSE, m |-> ld.m]
             ELSE IF choice = "Retry"
             THEN [stop |-> "none", retryMode |-> TRUE, m |-> ResetFailed(ld.m)]
             ELSE [stop |-> "none", retryMode |-> FALSE, m |-> fresh]
        ELSE IF ~again THEN [stop |-> "quit", retryMode |-> FALSE, m |-> ld.m]
        ELSE [stop |-> "none", retryMode |-> FALSE, m |-> fresh]

\* the counters the callbacks of a pass keep
CountFailed(res) == Cardinality({i \in DOMAIN res : res[i].Error # ""})
CountSkipped(res) == Cardinality({i \in DOMAIN res : res[i].Skipped})
CountDone(res) == Cardinality({i \in DOMAIN res : ~res[i].Skipped /\ res[i].Error = ""})

\* what runSetup keeps between its passes; in a run started with --retry,
\* previous remembers the manifest the run found on disk
SetupOpts(pass, setupRetry, previous, retryMode, reposFilter, declined) ==
    [pass |-> pass, cmd |-> "setup", withManifest |-> TRUE, setupRetry |-> setupRetry,
     previous |-> previous, retryMode |-> retryMode, reposFilter |-> reposFilter,
     declined |-> declined]

\* lines 104-236: the graph, the manifest to work on, its first save, and the
\* start of the clone pass
RunSetupBegin(flag, choice, again) ==
    /\ session = "setup"
    /\ pc = "idle"
    /\ out = NoCall
    /\ runs + 2 <= MaxPasses
    /\ idx' = 0
    /\ calls' = <<>>
    /\ results' = <<>>
    /\ \E l \in Layers(fw), t \in TopologicalSort(fw) :
       LET ph == Phase1(setupDisk, flag, choice, again, t.sorted) IN
          IF l.err
          THEN /\ pc' = "returned"
               /\ ret' = [err |-> "dependency graph error"]
               /\ opts' = SetupOpts("setup", flag = "retry", NilManifest, FALSE, NoFilter, FALSE)
               /\ UNCHANGED <<plan, setup, setupDisk, runs>>
          ELSE IF ph.stop # "none"
          THEN /\ pc' = "returned"
               /\ ret' = [err |-> IF ph.stop = "error" THEN "no usable setup manifest" ELSE "none"]
               /\ opts' = SetupOpts("setup", flag = "retry", NilManifest, FALSE, NoFilter, FALSE)
               /\ UNCHANGED <<plan, setup, setupDisk, runs>>
          ELSE /\ pc' = "clone"
               /\ opts' = SetupOpts("clone", flag = "retry",
                                   IF flag = "retry" THEN SetupLoadManifest(setupDisk).m
                                   ELSE NilManifest,
                                   ph.retryMode, NoFilter, FALSE)
               /\ setup' = ph.m
               /\ setupDisk' = SetupSave(ph.m)
               /\ plan' = [changed |-> {}, buildSet |-> {}, layers |-> l.layers,
                           total |-> NodeCount(fw)]
               /\ runs' = runs + 1
               /\ UNCHANGED ret
    /\ UNCHANGED <<g, out, fw, repos, disk, manifest, commits, session, deployed>>

\* lines 318-330: in retry mode the install pass is filtered to the pending
\* installs, unless there are none
InstallFilter(retryMode, m) ==
    IF retryMode /\ PendingInstalls(m) # {}
    THEN [nil |-> FALSE, set |-> PendingInstalls(m)]
    ELSE NoFilter

\* lines 262-337: after the clone pass (the optional fetch of updates touches
\* no manifest and is left out), give up if nothing could be cloned, else
\* start the install pass
RunSetupInstall ==
    /\ pc = "returned"
    /\ opts.pass = "clone"
    /\ opts.cmd = "setup"
    /\ idx' = 0
    /\ calls' = <<>>
    /\ IF CountFailed(results) > 0 /\ CountDone(results) + CountSkipped(results) = 0
       THEN /\ pc' = "returned"
            /\ ret' = [err |-> "all repositories failed to clone"]
            /\ opts' = SetupOpts("setup", opts.setupRetry, NilManifest, opts.retryMode, NoFilter, FALSE)
            /\ UNCHANGED <<results, runs>>
       ELSE /\ pc' = "install"
            /\ opts' = SetupOpts("install", opts.setupRetry, opts.previous, opts.retryMode,
                             InstallFilter(opts.retryMode, setup), FALSE)
            /\ results' = <<>>
            /\ runs' = runs + 1
            /\ ret' = NoReturn
    /\ UNCHANGED <<g, out, fw, repos, disk, manifest, plan, commits, setup, setupDisk, session, deployed>>

\* mutant: the loop goes on only while more than one install failed
RetryLoopGoesOn_MoreThanOne(installFailed) == installFailed > 1

\* line 381: for installFailed > 0
RetryLoopGoesOn(installFailed) == installFailed > 0

\* lines 381-438: the user accepts a retry: reset the failed phases, save, and
\* run the install pass again over the repos that had failed
RunSetupRetry ==
    /\ pc = "returned"
    /\ opts.pass = "install"
    /\ opts.cmd = "setup"
    /\ RetryLoopGoesOn(CountFailed(results))
    /\ runs < MaxPasses
    /\ LET failedRepos == FailedInstalls(setup)
           m1          == ResetFailed(setup)
       IN  /\ setup' = m1
           /\ setupDisk' = SetupSave(m1)
           /\ opts' = SetupOpts("install", opts.setupRetry, opts.previous, opts.retryMode,
                               [nil |-> FALSE, set |-> failedRepos], FALSE)
    /\ pc' = "install"
    /\ idx' = 0
    /\ calls' = <<>>
    /\ results' = <<>>
    /\ runs' = runs + 1
    /\ ret' = NoReturn
    /\ UNCHANGED <<g, out, fw, repos, disk, manifest, plan, commits, session, deployed>>

\* mutant: the clone phases are not looked at
NothingLeft_InstallsOnly(s) == s.InstallsFailed = 0 /\ s.InstallsPending = 0

\* line 446: nothing is failed and nothing is pending
NothingLeft(s) ==
    s.ClonesFailed = 0 /\ s.InstallsFailed = 0 /\ s.ClonesPending = 0 /\ s.InstallsPending = 0

\* lines 381-456: the loop is over, because nothing failed or because the
\* user declined; mark the run complete if nothing is failed or pending, save
RunSetupFinish(declined) ==
    /\ pc = "returned"
    /\ opts.pass = "install"
    /\ opts.cmd = "setup"
    /\ declined = RetryLoopGoesOn(CountFailed(results))
    /\ LET m1 == IF NothingLeft(Summary(setup))
                 THEN MarkComplete(setup, Now(runs, MaxNodes + 1)) ELSE setup
       IN  /\ setup' = m1
           /\ setupDisk' = SetupSave(m1)
    /\ opts' = SetupOpts("setup", opts.setupRetry, NilManifest, opts.retryMode, opts.reposFilter, declined)
    /\ ret' = [err |-> "none"]
    /\ UNCHANGED <<g, out, fw, repos, disk, pc, manifest, plan, idx, results, calls, runs, commits,
                   session, deployed>>

\* the command has returned and its process ends
RunSetupExit ==
    /\ opts.pass = "setup"
    /\ Exit

\* the user interrupts the command during one of its first passes: the
\* process ends and only the files are left
Interrupt ==
    /\ pc \in {"clone", "install"}
    /\ opts.cmd = "setup"
    /\ runs <= MaxInterruptPass
    /\ pc' = "idle"
    /\ opts' = NoOpts
    /\ plan' = NoPlan
    /\ idx' = 0
    /\ results' = <<>>
    /\ calls' = <<>>
    /\ ret' = NoReturn
    /\ setup' = NilManifest
    /\ UNCHANGED <<g, out, fw, repos, disk, manifest, runs, commits, setupDisk, session, deployed>>

\* no repository is cloned yet
FreshMachine == [r \in Repos |-> [dir |-> FALSE, pom |-> FALSE, sha |-> 0]]

\* the setup command is run over excerpts of the framework graph, on a machine
\* where nothing is cloned yet or where at most one repository is not ready,
\* and with or without a readable manifest
InitSetup ==
    /\ g = New
    /\ out = NoCall
    /\ fw \in FrameworkGraphs
    /\ repos \in Environments \cup {FreshMachine}
    /\ pc = "idle"
    /\ manifest = NoManifest
    /\ opts = NoOpts
    /\ plan = NoPlan
    /\ idx = 0
    /\ results = <<>>
    /\ calls = <<>>
    /\ ret = NoReturn
    /\ runs = 0
    /\ commits = 0
    /\ setup = NilManifest
    /\ session = "setup"
    /\ deployed = NoDeploys
    /\ disk = [kind |-> "missing"]
    /\ setupDisk \in {[kind |-> "missing"], [kind |-> "corrupt"]}

NextSetup ==
    \/ \E flag \in SetupFlags, choice \in Choices, again \in BOOLEAN :
          RunSetupBegin(flag, choice, again)
    \/ CloneAllDAGNode
    \/ CloneAllDAGReturn
    \/ RunSetupInstall
    \/ InstallAllDAGNode
    \/ InstallAllDAGReturn
    \/ RunSetupRetry
    \/ \E declined \in BOOLEAN : RunSetupFinish(declined)
    \/ RunSetupExit
    \/ Interrupt

SpecSetup == InitSetup /\ [][NextSetup]_vars

\* --------------------------- flywork build and flywork publish (the commands)
\* Both commands show a plan, ask for confirmation and hand over to their
\* executor; both executors load and save the build manifest.

\* --repo: absent, a repository of the framework, or an unknown name
RepoFlags == {<<>>, <<1>>, <<2>>, <<3>>, <<Unknown>>}

\* the layers a command displays for the set it computed: the repositories
\* listed under each layer header
ShownLayers(gr, displaySet, text) ==
    UNION {{[stop |-> IF l.err THEN text ELSE "none",
             layers |-> [i \in DOMAIN l.layers |-> Range(l.layers[i])]]
            : l \in Layers(sg.sub)}
           : sg \in Subgraph(gr, displaySet)}

\* runBuild, Phases 1 and 2: the plan flywork build displays
RunBuildPlan(gr, env, file, all, repo) ==
    LET ld == LoadManifest(file)
        d  == DetectChanges(gr, env, IF ld.err \/ ld.nil THEN NewManifest ELSE ld.m)
    IN  UNION {LET affected == IF all THEN Range(Nodes(gr)) ELSE a IN
               IF ~all /\ repo # <<>> /\ ~HasNode(gr, repo[1])
               THEN {[stop |-> "unknown repository", layers |-> <<>>]}
               ELSE IF affected = {} /\ ~all
               THEN {[stop |-> "up to date", layers |-> <<>>]}
               ELSE IF repo = <<>>
               THEN ShownLayers(gr, affected, "failed to compute build layers")
               ELSE UNION {LET withDeps == {repo[1]} \cup Range(deps) IN
                           ShownLayers(gr, IF all THEN withDeps ELSE withDeps \cap affected,
                                       "failed to compute build layers")
                           : deps \in TransitiveDependentsOf(gr, repo[1])}
               : a \in TransitiveClosure(gr, d.changed)}

\* runPublish, Phase 2: the plan flywork publish displays
RunPublishPlan(gr, env, file, all, repo) ==
    LET ld == LoadManifest(file)
        d  == DetectChanges(gr, env, IF ld.err \/ ld.nil THEN NewManifest ELSE ld.m)
    IN  UNION {IF ~all /\ repo # <<>> /\ ~HasNode(gr, repo[1])
               THEN {[stop |-> "unknown repository", layers |-> <<>>]}
               ELSE LET affected == IF all THEN Range(Nodes(gr))
                                    ELSE IF repo # <<>> THEN {repo[1]} ELSE a
                    IN  IF affected = {}
                        THEN {[stop |-> "up to date", layers |-> <<>>]}
                        ELSE ShownLayers(gr, affected, "failed to compute publish layers")
               : a \in TransitiveClosure(gr, d.changed)}

\* what a command records of itself: its flags, the layers it displayed and
\* whether it reached its executor
CommandOpts(pass, all, repo, shown, executed) ==
    [pass |-> pass, ForceAll |-> all, TargetRepos |-> repo, DryRun |-> FALSE,
     shown |-> shown, executed |-> executed]

\* a command returns before its executor is called
ReturnEarly(pass, all, repo, sh) ==
    /\ pc' = "returned"
    /\ opts' = CommandOpts(pass, all, repo, sh.layers, FALSE)
    /\ ret' = [err |-> IF sh.stop \in {"none", "up to date"} THEN "none" ELSE sh.stop]
    /\ UNCHANGED <<manifest, plan, results>>

\* PublishAllDAG: the targets themselves, or an error at the first target
\* that is no node
RECURSIVE PublishTargetLoop(_, _, _, _)
PublishTargetLoop(gr, targets, i, targeted) ==
    IF i > Len(targets) THEN [err |-> FALSE, targeted |-> targeted]
    ELSE IF ~HasNode(gr, targets[i]) THEN [err |-> TRUE, targeted |-> targeted]
    ELSE PublishTargetLoop(gr, targets, i + 1, targeted \cup {targets[i]})

\* PublishAllDAG: what it plans before its loop
PlanPublish(gr, env, m, o) ==
    UNION {LET t  == PublishTargetLoop(gr, o.TargetRepos, 1, {})
               ps == IF Len(o.TargetRepos) = 0 THEN bs.buildSet
                     ELSE IF ~o.ForceAll THEN t.targeted \cap bs.buildSet ELSE t.targeted
           IN  IF Len(o.TargetRepos) > 0 /\ t.err
               THEN {[err |-> "unknown repository", changed |-> bs.changed, m |-> bs.m,
                      buildSet |-> {}, layers |-> <<>>, total |-> 0]}
               ELSE {[err |-> IF lp.err THEN "failed to compute publish layers" ELSE "none",
                      changed |-> bs.changed, m |-> bs.m, buildSet |-> ps,
                      layers |-> lp.layers, total |-> lp.total]
                     : lp \in LayerPlans(gr, ps)}
           : bs \in BuildSets(gr, env, m, o)}

\* the executor is called: it loads the manifest, plans, and returns an error
\* or enters its loop
EnterExecutor(pass, o) ==
    /\ opts' = o
    /\ LET ld == LoadManifest(disk) IN
       IF ld.err
       THEN /\ pc' = "returned"
            /\ ret' = [err |-> "failed to load build manifest"]
            /\ UNCHANGED <<manifest, plan, results>>
       ELSE \E p \in (IF pass = "build"
                      THEN PlanBuild(fw, repos, IF ld.nil THEN NewManifest ELSE ld.m, o)
                      ELSE PlanPublish(fw, repos, IF ld.nil THEN NewManifest ELSE ld.m, o)) :
               /\ manifest' = p.m
               /\ plan' = [changed |-> p.changed, buildSet |-> p.buildSet,
                           layers |-> p.layers, total |-> p.total]
               /\ UNCHANGED results
               /\ IF p.err # "none"
                  THEN pc' = "returned" /\ ret' = [err |-> p.err]
                  ELSE pc' = pass /\ UNCHANGED ret

\* flywork build [--all] [--repo r] [--dry-run], up to the executor's loop
RunBuild(all, repo, dryRun, confirm) ==
    /\ session = "publish"
    /\ pc = "idle"
    /\ runs < MaxCommands
    /\ runs' = runs + 1
    /\ idx' = 0
    /\ calls' = <<>>
    /\ \E sh \in RunBuildPlan(fw, repos, disk, all, repo) :
          IF sh.stop # "none" \/ dryRun \/ ~confirm
          THEN ReturnEarly("build", all, repo, sh)
          ELSE EnterExecutor("build", CommandOpts("build", all, repo, sh.layers, TRUE))
    /\ UNCHANGED <<g, out, fw, repos, disk, commits, setup, setupDisk, session, deployed>>

\* flywork publish [--all] [--repo r] [--dry-run], up to the executor's loop
RunPublish(all, repo, dryRun, confirm) ==
    /\ session = "publish"
    /\ pc = "idle"
    /\ runs < MaxCommands
    /\ runs' = runs + 1
    /\ idx' = 0
    /\ calls' = <<>>
    /\ \E sh \in RunPublishPlan(fw, repos, disk, all, repo) :
          IF sh.stop # "none" \/ dryRun \/ ~confirm
          THEN ReturnEarly("publish", all, repo, sh)
          ELSE EnterExecutor("publish", CommandOpts("publish", all, repo, sh.layers, TRUE))
    /\ UNCHANGED <<g, out, fw, repos, disk, commits, setup, setupDisk, session, deployed>>

\* one iteration of PublishAllDAG's loop over the layers' repos
PublishAllDAGNode ==
    /\ pc = "publish"
    /\ idx < plan.total
    /\ LET i        == idx + 1
           repo     == Flatten(plan.layers)[i]
           layerIdx == LayerIndexAt(plan.layers, i, 0)
           started  == Append(calls, Event("onStart", layerIdx, repo, i, plan.total))
       IN
       /\ idx' = i
       /\ IF ~PomExists(repos, repo)
          THEN /\ results' = Append(results, [Repo |-> repo, Skipped |-> TRUE, Error |-> ""])
               /\ calls' = Append(started, Event("onDone", layerIdx, repo, i, plan.total))
               /\ UNCHANGED <<manifest, disk>>
          ELSE \E deployErr \in {"", "err"} :
               LET sha == HeadSHA(repos, repo).sha
                   m2  == IF deployErr = "" THEN MarkSuccess(manifest, repo, sha)
                          ELSE MarkFailed(manifest, repo, sha, deployErr)
               IN  /\ manifest' = m2
                   /\ disk' = Save(m2)
                   /\ results' = Append(results, [Repo |-> repo, Skipped |-> FALSE, Error |-> deployErr])
                   /\ calls' = started \o
                         <<Event("exec", layerIdx, repo, i, plan.total),
                           Event("mark", layerIdx, repo, i, plan.total),
                           Event("save", layerIdx, repo, i, plan.total),
                           Event("onDone", layerIdx, repo, i, plan.total)>>
    /\ UNCHANGED <<g, out, fw, repos, pc, opts, plan, ret, runs, commits, setup, setupDisk, session,
                   deployed>>

PublishAllDAGReturn ==
    /\ pc = "publish"
    /\ idx = plan.total
    /\ pc' = "returned"
    /\ ret' = [err |-> "none"]
    /\ UNCHANGED <<g, out, fw, repos, disk, manifest, opts, plan, idx, results, calls, runs, commits,
                   setup, setupDisk, session, deployed>>

\* the HEADs of the repos the returned command built or deployed without error
Delivered(old) ==
    LET done == {results[i].Repo : i \in {j \in DOMAIN results :
                     ~results[j].Skipped /\ results[j].Error = ""}}
    IN  [r \in (DOMAIN old) \cup done |-> IF r \in done THEN HeadSHA(repos, r).sha ELSE old[r]]

\* the command returns to the shell
CommandExit ==
    /\ session = "publish"
    /\ pc = "returned"
    /\ deployed' = IF ~opts.executed THEN deployed
                   ELSE IF opts.pass = "build"
                   THEN [deployed EXCEPT !.built = Delivered(@)]
                   ELSE [deployed EXCEPT !.published = Delivered(@)]
    /\ pc' = "idle"
    /\ manifest' = NoManifest
    /\ opts' = NoOpts
    /\ plan' = NoPlan
    /\ idx' = 0
    /\ results' = <<>>
    /\ calls' = <<>>
    /\ ret' = NoReturn
    /\ UNCHANGED <<g, out, fw, repos, disk, runs, commits, setup, setupDisk, session>>

\* a commit lands in a repository between two commands
CommitBetween(repo) ==
    /\ session = "publish"
    /\ pc = "idle"
    /\ commits < MaxCommits
    /\ ~HeadSHA(repos, repo).err
    /\ repos' = [repos EXCEPT ![repo].sha = @ + 1]
    /\ commits' = commits + 1
    /\ UNCHANGED <<g, out, fw, disk, pc, manifest, opts, plan, idx, results, calls, ret, runs,
                   setup, setupDisk, session, deployed>>

\* the manifest after a run with --all in which every repository with a
\* pom.xml succeeded
RECURSIVE FullRun(_, _, _)
FullRun(env, nodes, m) ==
    IF nodes = <<>> THEN m
    ELSE FullRun(env, Tail(nodes),
                 IF PomExists(env, Head(nodes))
                 THEN MarkSuccess(m, Head(nodes), HeadSHA(env, Head(nodes)).sha)
                 ELSE m)

HeadsOf(env, m) == [r \in DOMAIN m.Repos |-> HeadSHA(env, r).sha]

\* the chain, and the two dependents of one root
CommandGraphs ==
    {AddEdge(AddEdge(AddNode(New, 1), 2, 1), 3, 2),
     AddEdge(AddEdge(AddNode(New, 1), 2, 1), 3, 1)}

\* The commands start on a machine without a manifest or with an unreadable
\* one, or after a flywork build --all, or after a flywork publish --all.
InitPublish ==
    /\ g = New
    /\ out = NoCall
    /\ fw \in CommandGraphs
    /\ repos \in Environments
    /\ \E before \in {"missing", "corrupt", "build", "publish"} :
          LET m == FullRun(repos, Nodes(fw), NewManifest) IN
          /\ disk = IF before \in {"missing", "corrupt"} THEN [kind |-> before] ELSE Save(m)
          /\ deployed = [built     |-> IF before = "build" THEN HeadsOf(repos, m) ELSE <<>>,
                         published |-> IF before = "publish" THEN HeadsOf(repos, m) ELSE <<>>]
    /\ pc = "idle"
    /\ manifest = NoManifest
    /\ opts = NoOpts
    /\ plan = NoPlan
    /\ idx = 0
    /\ results = <<>>
    /\ calls = <<>>
    /\ ret = NoReturn
    /\ runs = 0
    /\ commits = 0
    /\ setup = NilManifest
    /\ setupDisk = [kind |-> "missing"]
    /\ session = "publish"

NextPublish ==
    \/ \E all, dryRun, confirm \in BOOLEAN, repo \in RepoFlags : RunBuild(all, repo, dryRun, confirm)
    \/ RunDAGBuildNode
    \/ RunDAGBuildReturn
    \/ \E all, dryRun, confirm \in BOOLEAN, repo \in RepoFlags : RunPublish(all, repo, dryRun, confirm)
    \/ PublishAllDAGNode
    \/ PublishAllDAGReturn
    \/ CommandExit
    \/ \E repo \in Repos : CommitBetween(repo)

SpecPublish == InitPublish /\ [][NextPublish]_vars

\* ------------------------------------------- the manifests on their own
\* The operations of the two manifest types applied in any order to the
\* manifest in memory, with Save and LoadManifest in between.
HarnessRepos == 1..2
Shas == 1..2
ErrTexts == {"", "err"}

\* what a manifest operation leaves alone
harnessVars == <<g, out, fw, repos, pc, opts, plan, idx, results, calls, ret, commits, session, deployed>>

\* one more operation on the build manifest, or on the setup manifest
BuildOp ==
    /\ session = "build"
    /\ runs < MaxOps
    /\ runs' = runs + 1
    /\ UNCHANGED <<harnessVars, setup, setupDisk>>

SetupOp ==
    /\ session = "setup"
    /\ runs < MaxOps
    /\ runs' = runs + 1
    /\ UNCHANGED <<harnessVars, manifest, disk>>

CallMarkSuccess(repo, sha) ==
    BuildOp /\ manifest' = MarkSuccess(manifest, repo, sha) /\ UNCHANGED disk

CallMarkFailed(repo, sha, buildErr) ==
    BuildOp /\ manifest' = MarkFailed(manifest, repo, sha, buildErr) /\ UNCHANGED disk

CallSave == BuildOp /\ disk' = Save(manifest) /\ UNCHANGED manifest

CallLoadManifest ==
    /\ BuildOp
    /\ LET ld == LoadManifest(disk)
       IN  manifest' = IF ld.err \/ ld.nil THEN NewManifest ELSE ld.m
    /\ UNCHANGED disk

CallMarkClone(repo, err) ==
    SetupOp /\ setup' = MarkClone(setup, repo, err, runs + 1) /\ UNCHANGED setupDisk

CallMarkCloneSkipped(repo) ==
    SetupOp /\ setup' = MarkCloneSkipped(setup, repo, runs + 1) /\ UNCHANGED setupDisk

CallSetCommitSHA(repo, sha) ==
    SetupOp /\ setup' = SetCommitSHA(setup, repo, sha) /\ UNCHANGED setupDisk

CallMarkInstall(repo, err) ==
    SetupOp /\ setup' = MarkInstall(setup, repo, err, runs + 1) /\ UNCHANGED setupDisk

CallMarkInstallSkipped(repo) ==
    SetupOp /\ setup' = MarkInstallSkipped(setup, repo, runs + 1) /\ UNCHANGED setupDisk

CallMarkComplete ==
    SetupOp /\ setup' = MarkComplete(setup, runs + 1) /\ UNCHANGED setupDisk

CallResetFailed == SetupOp /\ setup' = ResetFailed(setup) /\ UNCHANGED setupDisk

CallResetAll == SetupOp /\ setup' = ResetAll(setup) /\ UNCHANGED setupDisk

CallSetupSave == SetupOp /\ setupDisk' = SetupSave(setup) /\ UNCHANGED setup

CallSetupLoadManifest ==
    /\ SetupOp
    /\ LET ld == SetupLoadManifest(setupDisk)
       IN  /\ ~ld.err
           /\ ~ld.m.nil
           /\ setup' = ld.m
    /\ UNCHANGED setupDisk

\* a new build manifest, or a new setup manifest for one repo (the other is
\* created by Repo when it is first marked), and no file
InitManifest ==
    /\ g = New
    /\ out = NoCall
    /\ fw = New
    /\ repos = [r \in Repos |-> ReadyRepo]
    /\ pc = "idle"
    /\ opts = NoOpts
    /\ plan = NoPlan
    /\ idx = 0
    /\ results = <<>>
    /\ calls = <<>>
    /\ ret = NoReturn
    /\ runs = 0
    /\ commits = 0
    /\ session \in {"build", "setup"}
    /\ deployed = NoDeploys
    /\ manifest = NewManifest
    /\ setup = SetupNewManifest(<<1>>)
    /\ disk = [kind |-> "missing"]
    /\ setupDisk = [kind |-> "missing"]

NextManifest ==
    \/ \E repo \in HarnessRepos, sha \in Shas : CallMarkSuccess(repo, sha)
    \/ \E repo \in HarnessRepos, sha \in Shas, buildErr \in ErrTexts :
          CallMarkFailed(repo, sha, buildErr)
    \/ CallSave
    \/ CallLoadManifest
    \/ \E repo \in HarnessRepos, err \in ErrTexts : CallMarkClone(repo, err)
    \/ \E repo \in HarnessRepos : CallMarkCloneSkipped(repo)
    \/ \E repo \in HarnessRepos, sha \in Shas : CallSetCommitSHA(repo, sha)
    \/ \E repo \in HarnessRepos, err \in ErrTexts : CallMarkInstall(repo, err)
    \/ \E repo \in HarnessRepos : CallMarkInstallSkipped(repo)
    \/ CallMarkComplete
    \/ CallResetFailed
    \/ CallResetAll
    \/ CallSetupSave
    \/ CallSetupLoadManifest

SpecManifest == InitManifest /\ [][NextManifest]_vars

\* ------------------------------------------------------- graph properties
\* the transitive closure of a relation given as a set of pairs
RECURSIVE RelClosure(_)
RelClosure(R) ==
    LET R2 == R \cup {<<p[1], q[2]>> : <<p, q>> \in {pq \in R \X R : pq[1][2] = pq[2][1]}}
    IN  IF R2 = R THEN R ELSE RelClosure(R2)

\* a transitively depends on b: a non-empty path of depends-on edges from a to b
DependsOnPlus(gr) == RelClosure(EdgesOf(gr))

Acyclic(gr) == \A n \in gr.nodes : <<n, n>> \notin DependsOnPlus(gr)

Pos(s, x) == CHOOSE i \in 1..Len(s) : s[i] = x

IsTopologicalOrder(gr, s) ==
    /\ Len(s) = Cardinality(gr.nodes)
    /\ Range(s) = gr.nodes
    /\ \A e \in EdgesOf(gr) : Pos(s, e[2]) < Pos(s, e[1])

\* the 0-based index of the layer holding n
LayerOf(layers, n) == (CHOOSE i \in 1..Len(layers) : n \in Range(layers[i])) - 1

Max(S) == CHOOSE x \in S : \A y \in S : y <= x

IsSimpleCycle(gr, c) ==
    /\ Len(c) >= 2
    /\ c[1] = c[Len(c)]
    /\ \A i \in 1..(Len(c) - 1) : <<c[i], c[i + 1]>> \in EdgesOf(gr)
    /\ \A i, j \in 1..(Len(c) - 1) : i # j => c[i] # c[j]

\* the subsequence of s whose elements are in S
RECURSIVE Restrict(_, _)
Restrict(s, S) ==
    IF s = <<>> THEN <<>>
    ELSE IF Head(s) \in S THEN <<Head(s)>> \o Restrict(Tail(s), S)
    ELSE Restrict(Tail(s), S)

\* C3: for an acyclic graph TopologicalSort succeeds, returns every node
\* exactly once, and puts every dependency before each node that depends on it.
C3_TopologicalSortOrder ==
    (out.op = "TopologicalSort" /\ Acyclic(g)) =>
        /\ ~out.res.err
        /\ IsTopologicalOrder(g, out.res.sorted)

C3_Witness ==
    /\ out.op = "TopologicalSort"
    /\ Acyclic(g)
    /\ Cardinality(g.nodes) = MaxNodes
    /\ Cardinality(EdgesOf(g)) >= 2
    /\ ~out.res.err
    /\ out.res.sorted # g.ordered

\* C4: for an acyclic graph Layers succeeds, every node is in exactly one
\* layer, a node without dependencies is in layer 0 and any other node in layer
\* 1 + the largest layer of its direct dependencies, and the layers flattened
\* in order are a topological order.
C4_LayersDepth ==
    (out.op = "Layers" /\ Acyclic(g)) =>
        /\ ~out.res.err
        /\ \A n \in g.nodes :
              Cardinality({i \in 1..Len(out.res.layers) : n \in Range(out.res.layers[i])}) = 1
        /\ \A i \in 1..Len(out.res.layers) :
              /\ out.res.layers[i] # <<>>
              /\ Cardinality(Range(out.res.layers[i])) = Len(out.res.layers[i])
        /\ \A n \in g.nodes :
              LayerOf(out.res.layers, n) =
                 IF Get(g.edges, n) = {} THEN 0
                 ELSE 1 + Max({LayerOf(out.res.layers, d) : d \in Get(g.edges, n)})
        /\ IsTopologicalOrder(g, Flatten(out.res.layers))

C4_Witness ==
    /\ out.op = "Layers"
    /\ Acyclic(g)
    /\ ~out.res.err
    /\ Len(out.res.layers) = 3
    /\ \E n \in g.nodes : Cardinality(Get(g.edges, n)) = 2

\* C5: for a graph with a cycle TopologicalSort and Layers fail, and the path
\* they report is closed, follows existing depends-on edges only, and repeats
\* no node but its endpoint.
C5_CyclePath ==
    (out.op \in {"TopologicalSort", "Layers"} /\ ~Acyclic(g)) =>
        /\ out.res.err
        /\ IsSimpleCycle(g, out.res.cycle)

\* a cycle of three nodes reported; and a cycle reached through a lead-in node
C5_Witness ==
    /\ out.op \in {"TopologicalSort", "Layers"}
    /\ out.res.err
    /\ Len(out.res.cycle) = 3
    /\ g.ordered[1] \notin Range(out.res.cycle)
    /\ Get(g.edges, g.ordered[1]) # {}

\* C6: TransitiveClosure returns the changed set plus every node with a
\* dependency path to a changed node, whatever the iteration order, and
\* applying it to its own result returns that result.
C6_TransitiveClosureExact ==
    out.op = "TransitiveClosure" =>
        /\ out.res = out.changed \cup
              {n \in g.nodes : \E c \in out.changed : <<n, c>> \in DependsOnPlus(g)}
        /\ out.again = out.res

C6_Witness ==
    /\ out.op = "TransitiveClosure"
    /\ Cardinality(out.changed) = 1
    /\ \E n \in out.res \ out.changed :
          \A c \in out.changed : n \notin Get(g.reverse, c)
    /\ \E c \in out.changed : c \in g.nodes

\* C7: TransitiveDependentsOf returns, in ascending order and without
\* duplicates, exactly the nodes with a dependency path to id, id excluded; it
\* is empty when id is not a node.
C7_TransitiveDependentsExact ==
    out.op = "TransitiveDependentsOf" =>
        /\ Range(out.res) = {n \in g.nodes : <<n, out.id>> \in DependsOnPlus(g)} \ {out.id}
        /\ \A i, j \in 1..Len(out.res) : i < j => out.res[i] < out.res[j]
        /\ out.id \notin g.nodes => out.res = <<>>

\* two dependents, the larger one is the direct dependent (found first)
C7_Witness ==
    /\ out.op = "TransitiveDependentsOf"
    /\ Len(out.res) = 2
    /\ Get(g.reverse, out.id) = {out.res[2]}

\* C8: Subgraph returns a graph with exactly the nodes of S that are in G,
\* exactly the edges of G between them, in G's insertion order, and leaves G
\* as it was.
C8_SubgraphExact ==
    out.op = "Subgraph" =>
        /\ out.res.nodes = out.nodes \cap out.before.nodes
        /\ EdgesOf(out.res) = {e \in EdgesOf(out.before) : e[1] \in out.nodes /\ e[2] \in out.nodes}
        /\ DOMAIN out.res.edges = out.res.nodes
        /\ \A a, b \in out.res.nodes : b \in out.res.edges[a] <=> a \in out.res.reverse[b]
        /\ out.res.ordered = Restrict(out.before.ordered, out.nodes)
        /\ g = out.before

\* a set with an unknown id, one edge of G kept and one dropped
C8_Witness ==
    /\ out.op = "Subgraph"
    /\ Unknown \in out.nodes
    /\ EdgesOf(out.res) # {}
    /\ EdgesOf(out.res) # EdgesOf(out.before)
    /\ out.res.nodes # out.before.nodes

\* ------------------------------------------------- orchestrator properties
\* the nodes of the pass's layers
Planned == Range(Flatten(plan.layers))

\* positions in the call log of the events of one kind for one repo
EventsOf(ev, repo) == {i \in 1..Len(calls) : calls[i].ev = ev /\ calls[i].repo = repo}

\* the fingerprint a manifest records for a repo, 0 when there is no entry
Recorded(m, repo) == IF repo \in DOMAIN m.Repos THEN m.Repos[repo].LastBuildSHA ELSE 0

\* C1: in a RunDAGBuild pass without ForceAll and without TargetRepos, every
\* node that transitively depends on a node DetectChanges reported changed is in
\* the planned layers; when the pass has run, it has exactly one result, which is
\* Skipped exactly when it has no pom.xml, and otherwise its build was invoked.
C1_DependentsPlanned ==
    (/\ opts.pass = "build"
     /\ pc \in {"build", "returned"}
     /\ ret.err = "none"
     /\ ~opts.ForceAll
     /\ opts.TargetRepos = <<>>) =>
        \A x \in plan.changed : \A y \in fw.nodes :
            <<y, x>> \in DependsOnPlus(fw) =>
                /\ y \in Planned
                /\ (pc = "returned" /\ ~opts.DryRun) =>
                      /\ Cardinality({i \in 1..Len(results) : results[i].Repo = y}) = 1
                      /\ \A i \in 1..Len(results) :
                            results[i].Repo = y =>
                                /\ results[i].Skipped <=> ~repos[y].pom
                                /\ ~results[i].Skipped => EventsOf("exec", y) # {}

C1_Witness ==
    /\ opts.pass = "build"
    /\ pc = "returned"
    /\ ret.err = "none"
    /\ ~opts.ForceAll
    /\ opts.TargetRepos = <<>>
    /\ ~opts.DryRun
    /\ \E x \in plan.changed : \E y \in fw.nodes \ plan.changed :
          /\ <<y, x>> \in DependsOnPlus(fw)
          /\ repos[y].dir
          /\ EventsOf("exec", y) # {}

\* C2: in every pass of RunDAGBuild, CloneAllDAG and InstallAllDAG, when any
\* event of a planned node v occurs, every planned node v transitively depends
\* on in the framework graph, and every node of an earlier layer, has already
\* had its onDone; the layer index reported with an event is the node's layer.
C2_DependenciesFirst ==
    \A j \in 1..Len(calls) :
        LET v == calls[j].repo IN
        /\ v \in Planned
        /\ calls[j].layer = LayerOf(plan.layers, v)
        /\ \A u \in Planned :
              (<<v, u>> \in DependsOnPlus(fw) \/ LayerOf(plan.layers, u) < LayerOf(plan.layers, v))
                  => \E i \in 1..(j - 1) : calls[i].ev = "onDone" /\ calls[i].repo = u

C2_Witness ==
    /\ opts.pass = "build"
    /\ pc = "returned"
    /\ opts.TargetRepos # <<>>
    /\ Len(plan.layers) >= 2
    /\ fw.ordered # Flatten(plan.layers)
    /\ \E u, v \in Planned :
          /\ <<v, u>> \in DependsOnPlus(fw)
          /\ EventsOf("onDone", u) # {}
          /\ EventsOf("onStart", v) # {}

\* C9: DetectChanges returns exactly the nodes whose directory exists and
\* whose HEAD is unreadable, or has no recorded fingerprint, or differs from the
\* recorded one; it leaves the manifest as it was, and a second call returns the
\* same set.
C9_DetectChangesExact ==
    out.op = "DetectChanges" =>
        /\ out.first = {n \in fw.nodes :
                          /\ repos[n].dir
                          /\ \/ repos[n].sha = 0
                             \/ Recorded(out.m, n) = 0
                             \/ Recorded(out.m, n) # repos[n].sha}
        /\ out.after = out.m
        /\ out.second = out.first

C9_Witness ==
    /\ out.op = "DetectChanges"
    /\ \E a, b, c \in fw.nodes :
          /\ ~repos[a].dir /\ a \notin out.first
          /\ Recorded(out.m, b) # 0 /\ repos[b].sha # 0
          /\ Recorded(out.m, b) # repos[b].sha /\ b \in out.first
          /\ Recorded(out.m, c) # 0 /\ Recorded(out.m, c) = repos[c].sha /\ c \notin out.first

\* C10: recording a Failed outcome leaves the fingerprint LastSHA returns for
\* the node as it was before the build.
C10_FailedKeepsFingerprint ==
    [][(pc = "build" /\ idx' = idx + 1 /\ results'[idx'].Error # "") =>
          LastSHA(manifest', results'[idx'].Repo).sha = LastSHA(manifest, results'[idx'].Repo).sha]_vars

\* C11: a failed build or install does not end the pass: while nodes remain
\* the loop can take the next one, and a RunDAGBuild or InstallAllDAG pass in
\* which a node failed returns no error and one result per planned node, in
\* plan order, a processed node's result carrying an error exactly when the
\* manifest records it as failed.
C11_FailureDoesNotAbort ==
    LET flat == Flatten(plan.layers) IN
    /\ (pc = "build" /\ idx < Len(flat)) => ENABLED RunDAGBuildNode
    /\ (pc = "install" /\ idx < Len(flat)) => ENABLED InstallAllDAGNode
    /\ (/\ pc = "returned"
        /\ opts.pass \in {"build", "install"}
        /\ \E i \in 1..Len(results) : results[i].Error # "") =>
           /\ ret.err = "none"
           /\ Len(results) = Len(flat)
           /\ \A i \in 1..Len(results) :
                 /\ results[i].Repo = flat[i]
                 /\ (opts.pass = "build" /\ ~results[i].Skipped) =>
                       (results[i].Error # "" <=> manifest.Repos[flat[i]].Status = "failed")
                 /\ (opts.pass = "install" /\ ~results[i].Skipped /\ ~setup.nil) =>
                       (results[i].Error # "" <=> setup.Repos[flat[i]].InstallStatus = "failed")

C11_Witness ==
    /\ pc = "returned"
    /\ opts.pass = "build"
    /\ Len(plan.layers) = 3
    /\ results[1].Error # ""
    /\ \A i \in 2..Len(results) :
          /\ <<results[i].Repo, results[1].Repo>> \in DependsOnPlus(fw)
          /\ EventsOf("exec", results[i].Repo) # {}
          /\ results[i].Error = ""

\* what a build manifest records for a repo
BuildEntry(m, repo) == IF repo \in DOMAIN m.Repos THEN m.Repos[repo] ELSE <<>>

\* what a setup manifest records for a repo: Repo treats a missing entry as pending
SetupEntry(m, repo) == IF repo \in DOMAIN m.Repos THEN m.Repos[repo] ELSE PendingState

\* the manifests a new process would read from the files
BuildOnDisk ==
    LET ld == LoadManifest(disk) IN IF ld.err \/ ld.nil THEN NewManifest ELSE ld.m

SetupOnDisk == SetupLoadManifest(setupDisk).m

\* the repos whose state on disk is not the state in memory
BuildUnsaved == {r \in Repos : BuildEntry(manifest, r) # BuildEntry(BuildOnDisk, r)}

SetupUnsaved == {r \in Repos : SetupEntry(setup, r) # SetupEntry(SetupOnDisk, r)}

\* C12: in a pass of RunDAGBuild, CloneAllDAG or InstallAllDAG that works on
\* a manifest, one loop iteration changes the recorded state of at most one
\* node, and whenever the loop is about to take a node, or has returned, the
\* manifest on disk records for every node what the manifest in memory does.
C12_SavedAfterEveryNode ==
    [][/\ (pc' = "build" \/ (pc' = "returned" /\ pc = "build")) => BuildUnsaved' = {}
       /\ pc = "build" =>
             Cardinality({r \in Repos : BuildEntry(manifest', r) # BuildEntry(manifest, r)}) <= 1
       /\ ((pc' \in {"clone", "install"} \/ (pc' = "returned" /\ pc \in {"clone", "install"}))
              /\ ~setup'.nil) => SetupUnsaved' = {}
       /\ (pc \in {"clone", "install"} /\ ~setup.nil) =>
             Cardinality({r \in Repos : SetupEntry(setup', r) # SetupEntry(setup, r)}) <= 1]_vars

C12_Witness ==
    /\ pc = "build"
    /\ idx = 2
    /\ idx < plan.total
    /\ results[1].Error # ""
    /\ results[2].Error = "" /\ ~results[2].Skipped
    /\ BuildUnsaved = {}
    /\ BuildEntry(BuildOnDisk, results[1].Repo).Status = "failed"
    /\ BuildEntry(BuildOnDisk, results[2].Repo).Status = "success"

\* C13: when InstallAllDAG runs with a filter and takes a node that is not in
\* it, the only things that happen are a Skipped result and the onDone
\* callback: no onStart, no install, the manifest in memory and the file on
\* disk stay as they are.
C13_FilteredNodeUntouched ==
    [][(/\ pc = "install"
        /\ idx' = idx + 1
        /\ ~opts.reposFilter.nil
        /\ Flatten(plan.layers)[idx'] \notin opts.reposFilter.set) =>
          LET repo == Flatten(plan.layers)[idx'] IN
          /\ results' = Append(results, [Repo |-> repo, Skipped |-> TRUE, Error |-> ""])
          /\ Len(calls') = Len(calls) + 1
          /\ calls'[Len(calls')].ev = "onDone"
          /\ calls'[Len(calls')].repo = repo
          /\ SetupEntry(setup', repo) = SetupEntry(setup, repo)
          /\ setup' = setup
          /\ setupDisk' = setupDisk]_vars

C13_Witness ==
    /\ pc = "returned"
    /\ opts.pass = "install"
    /\ ~setup.nil
    /\ opts.reposFilter = [nil |-> FALSE, set |-> {1}]
    /\ \E r \in Repos \ {1} :
          /\ SetupEntry(setup, r).InstallStatus = "failed"
          /\ EventsOf("onStart", r) = {}
          /\ EventsOf("onDone", r) # {}
    /\ EventsOf("exec", 1) # {}

\* the events an iteration added to the call log
NewEvents == {calls'[i].ev : i \in (Len(calls) + 1)..Len(calls')}

ResetStep ==
    \/ pc = "idle" /\ pc' = "clone" /\ opts'.retryMode
    \/ pc = "returned" /\ pc' = "install" /\ opts.pass = "install"

\* the manifest ResetFailed is applied to in such a step
BeforeReset == IF pc = "idle" THEN SetupLoadManifest(setupDisk).m ELSE setup

\* C15: ResetFailed turns every failed clone or install phase into pending
\* and clears that phase's error, leaves every other phase as it was, clears
\* the completion marker, and applied once more changes nothing.
C15_ResetFailed ==
    [][ResetStep =>
         /\ DOMAIN setup'.Repos = DOMAIN BeforeReset.Repos
         /\ \A r \in DOMAIN BeforeReset.Repos :
               LET b == BeforeReset.Repos[r]
                   a == setup'.Repos[r]
               IN  /\ IF b.CloneStatus = "failed"
                      THEN a.CloneStatus = "pending" /\ a.CloneError = ""
                      ELSE a.CloneStatus = b.CloneStatus /\ a.CloneError = b.CloneError
                   /\ IF b.InstallStatus = "failed"
                      THEN a.InstallStatus = "pending" /\ a.InstallError = ""
                      ELSE a.InstallStatus = b.InstallStatus /\ a.InstallError = b.InstallError
                   /\ a.CommitSHA = b.CommitSHA
                   /\ a.LastAttempt = b.LastAttempt
         /\ setup'.CompletedAt = 0
         /\ ResetFailed(setup') = setup']_vars

\* a retry pass is about to start: a failed install has been reset to pending
\* next to an install that stays recorded as success
C15_Witness ==
    /\ pc = "install"
    /\ idx = 0
    /\ opts.cmd = "setup"
    /\ ~opts.reposFilter.nil
    /\ \E r \in opts.reposFilter.set :
          /\ setup.Repos[r].InstallStatus = "pending"
          /\ setup.Repos[r].InstallError = ""
          /\ setup.Repos[r].LastAttempt # 0
    /\ \E r \in DOMAIN setup.Repos : setup.Repos[r].InstallStatus = "success"

\* a turn of the retry loop: the install pass has returned and is started again
RetryStep == pc = "returned" /\ opts.pass = "install" /\ pc' = "install"

\* the retry loop is left: the install pass has returned and runSetup goes on
\* to its summary
LoopExitStep == pc = "returned" /\ opts.pass = "install" /\ opts'.pass = "setup"

\* C16: a turn of the retry loop applies ResetFailed, saves, and runs the
\* install pass with a filter that is exactly the set of repos whose install
\* was failed when the turn began, so that only those are installed; the loop
\* takes a turn only after a pass with failures and is left only after a pass
\* without failures or when the user declines.
C16_RetryLoop ==
    [][/\ RetryStep =>
            /\ CountFailed(results) > 0
            /\ ~opts'.reposFilter.nil
            /\ opts'.reposFilter.set =
                  {r \in Repos : SetupEntry(setup, r).InstallStatus = "failed"}
            /\ setup' = ResetFailed(setup)
            /\ SetupUnsaved' = {}
       /\ (pc = "install" /\ ~opts.reposFilter.nil) =>
            \A i \in (Len(calls) + 1)..Len(calls') :
               calls'[i].ev = "exec" => calls'[i].repo \in opts.reposFilter.set
       /\ LoopExitStep => (CountFailed(results) = 0 \/ opts'.declined)]_vars

\* a retry pass over the one failed repo has installed it and skipped the
\* others, and the run has ended with nothing failed
C16_Witness ==
    /\ pc = "returned"
    /\ opts.pass = "setup"
    /\ ~opts.retryMode
    /\ ~opts.reposFilter.nil
    /\ CountFailed(results) = 0
    /\ CountSkipped(results) > 0
    /\ \E i \in DOMAIN calls : calls[i].ev = "exec" /\ calls[i].repo \in opts.reposFilter.set

\* the repos a retry has no reason to touch: cloned and installed with
\* success, or never attempted
Spared(m, r) ==
    LET e == SetupEntry(m, r)
    IN  \/ e.CloneStatus = "success" /\ e.InstallStatus = "success"
        \/ e.CloneStatus = "pending" /\ e.InstallStatus = "pending"

\* C17: in a run started with --retry, no clone and no install command is
\* run for a repo whose clone and install phases were both success, or both
\* pending, in the manifest the run loaded.
C17_RetryOnlyFailed ==
    [][(pc \in {"clone", "install"} /\ opts.cmd = "setup" /\ opts.setupRetry) =>
          \A i \in (Len(calls) + 1)..Len(calls') :
             calls'[i].ev = "exec" => ~Spared(opts.previous, calls'[i].repo)]_vars

\* every phase of every repo of the graph is success or skipped
AllPhasesDone(m) ==
    \A r \in Range(Nodes(fw)) :
       /\ SetupEntry(m, r).CloneStatus \in {"success", "skipped"}
       /\ SetupEntry(m, r).InstallStatus \in {"success", "skipped"}

\* C18: in every manifest runSetup has in memory or on disk, the completion
\* marker is set only if every clone and install phase is success or skipped,
\* and IsComplete holds exactly when all phases are so and the marker is
\* set; the marker on disk becomes set only in the step in which runSetup
\* leaves its retry loop after an install pass without failures.
C18_CompletionMarker ==
    [][/\ \A m \in {setup', SetupOnDisk'} :
            ~m.nil =>
               /\ m.CompletedAt # 0 => AllPhasesDone(m)
               /\ IsComplete(m) <=> (AllPhasesDone(m) /\ m.CompletedAt # 0)
       /\ (SetupOnDisk.CompletedAt = 0 /\ SetupOnDisk'.CompletedAt # 0) =>
            /\ LoopExitStep
            /\ CountFailed(results) = 0]_vars

\* a run has ended with every repo cloned or found, and installed, and the
\* manifest on disk carries the completion marker
C18_Witness ==
    /\ pc = "returned"
    /\ opts.pass = "setup"
    /\ SetupOnDisk.CompletedAt # 0
    /\ IsComplete(SetupOnDisk)
    /\ \E i \in DOMAIN calls : calls[i].ev = "exec"

\* the repositories DetectChanges can fingerprint: cloned, with a readable HEAD
Materialized == {r \in Range(Nodes(fw)) : DirExists(repos, r) /\ ~HeadSHA(repos, r).err}

\* C19: a build run that finds no manifest file, or one it cannot read, does
\* not return a manifest error: it plans from an empty manifest, so that
\* without --all every materialized repository counts as changed.
C19_UnreadableManifestDegrades ==
    [][(session = "build" /\ pc = "idle" /\ pc' \in {"build", "returned"}
           /\ disk.kind \in {"missing", "corrupt"}) =>
          /\ ret'.err # "failed to load build manifest"
          /\ (ret'.err = "none" /\ ~opts'.ForceAll) => plan'.changed = Materialized]_vars

\* C20: whatever the Mark and Reset operations have made of a manifest,
\* LoadManifest of what Save writes has the same repos with the same state
\* (status, error, fingerprint, last attempt) for each of them; this holds of
\* the build manifest and of the setup manifest.
C20_RoundTrip ==
    /\ LET back == LoadManifest(Save(manifest))
       IN  /\ ~back.err /\ ~back.nil
           /\ DOMAIN back.m.Repos = DOMAIN manifest.Repos
           /\ \A r \in DOMAIN manifest.Repos : back.m.Repos[r] = manifest.Repos[r]
    /\ LET back == SetupLoadManifest(SetupSave(setup))
       IN  /\ ~back.err /\ ~back.m.nil
           /\ DOMAIN back.m.Repos = DOMAIN setup.Repos
           /\ \A r \in DOMAIN setup.Repos : back.m.Repos[r] = setup.Repos[r]

\* a setup manifest with a failed install and its error text next to a repo
\* installed with success and carrying a fingerprint has been saved, and the
\* file reads back as the manifest in memory
C20_Witness ==
    /\ session = "setup"
    /\ setupDisk.kind = "file"
    /\ SetupLoadManifest(setupDisk).m = setup
    /\ \E r \in DOMAIN setup.Repos :
          setup.Repos[r].InstallStatus = "failed" /\ setup.Repos[r].InstallError # ""
    /\ \E r \in DOMAIN setup.Repos :
          setup.Repos[r].InstallStatus = "success" /\ setup.Repos[r].CommitSHA # 0

\* some id of the target list is no node of the graph
HasUnknownTarget(o) == \E i \in DOMAIN o.TargetRepos : ~HasNode(fw, o.TargetRepos[i])

\* C21: when some target is no node of the graph, RunDAGBuild returns the
\* unknown-repository error at once: nothing is built, no callback is called,
\* and the manifest is neither changed nor written, whatever the other targets.
C21_UnknownTargetRejected ==
    [][(session = "build" /\ pc = "idle" /\ pc' \in {"build", "returned"}
           /\ HasUnknownTarget(opts')) =>
          /\ pc' = "returned"
          /\ ret'.err = "unknown repository"
          /\ calls' = <<>>
          /\ results' = <<>>
          /\ disk' = disk
          /\ manifest' = BuildOnDisk]_vars

\* C22: for the graph a sequence of AddNode/AddEdge calls has built, every
\* call of TopologicalSort returns the same order and every call of Layers the
\* same layers with the same order inside each layer.
C22_OrderingDeterministic ==
    /\ (out.op = "TopologicalSort" /\ ~out.res.err) =>
          \A r \in TopologicalSort(g) : r.sorted = out.res.sorted
    /\ (out.op = "Layers" /\ ~out.res.err) =>
          \A r \in Layers(g) : r.layers = out.res.layers

\* the targets of the pass and every node that transitively depends on one
TargetsAndDependents ==
    LET ts == {opts.TargetRepos[i] : i \in DOMAIN opts.TargetRepos}
    IN  ts \cup {n \in fw.nodes : \E t \in ts : <<n, t>> \in DependsOnPlus(fw)}

\* the changed repos and every node that transitively depends on one
Affected ==
    plan.changed \cup {n \in fw.nodes : \E c \in plan.changed : <<n, c>> \in DependsOnPlus(fw)}

\* C23: a RunDAGBuild pass with TargetRepos plans exactly the targets and
\* their transitive dependents, all of them under ForceAll and otherwise those
\* that are also affected by a change, and builds no node outside the targets
\* and their dependents.
C23_TargetsScopeThePlan ==
    (/\ opts.pass = "build"
     /\ pc \in {"build", "returned"}
     /\ ret.err = "none"
     /\ opts.TargetRepos # <<>>) =>
        /\ plan.buildSet = IF opts.ForceAll THEN TargetsAndDependents
                           ELSE TargetsAndDependents \cap Affected
        /\ Planned = plan.buildSet
        /\ \A i \in 1..Len(calls) : calls[i].repo \in TargetsAndDependents
        /\ \A i \in 1..Len(results) : results[i].Repo \in TargetsAndDependents

\* a pass without ForceAll, targeted at a repo that has a dependent, has built
\* the changed target and left out a changed repo that is neither the target
\* nor one of its dependents
C23_Witness ==
    /\ opts.pass = "build"
    /\ pc = "returned"
    /\ ret.err = "none"
    /\ ~opts.ForceAll
    /\ ~opts.DryRun
    /\ Len(opts.TargetRepos) = 1
    /\ \E y \in fw.nodes : <<y, opts.TargetRepos[1]>> \in DependsOnPlus(fw)
    /\ EventsOf("exec", opts.TargetRepos[1]) # {}
    /\ plan.changed \ TargetsAndDependents # {}

\* the event at position j of the call log is ev for repo
IsEvent(j, ev, repo) == j \in 1..Len(calls) /\ calls[j].ev = ev /\ calls[j].repo = repo

\* the pass records its outcomes in a manifest
WithManifest == opts.pass = "build" \/ ~setup.nil

\* C24: in a pass of InstallAllDAG or RunDAGBuild, the external action of a
\* node comes right after the node's onStart and is followed by the manifest
\* update, the save and then onDone (by onDone alone when the pass has no
\* manifest); after an onStart the next callback is the onDone of the same
\* node, each node has at most one of each; and a node InstallAllDAG skips by
\* its filter or because it is recorded as installed gets no onStart.
C24_EventOrder ==
    (opts.pass \in {"build", "install"} /\ pc \in {"build", "install", "returned"}) =>
        /\ \A j \in 1..Len(calls) :
              LET v == calls[j].repo IN
              /\ calls[j].ev = "exec" =>
                    /\ IsEvent(j - 1, "onStart", v)
                    /\ IF WithManifest
                       THEN /\ IsEvent(j + 1, "mark", v)
                            /\ IsEvent(j + 2, "save", v)
                            /\ IsEvent(j + 3, "onDone", v)
                       ELSE IsEvent(j + 1, "onDone", v)
              /\ calls[j].ev = "onStart" =>
                    /\ Cardinality(EventsOf("onStart", v)) = 1
                    /\ Cardinality(EventsOf("onDone", v)) = 1
                    /\ \E k \in (j + 1)..Len(calls) :
                          /\ IsEvent(k, "onDone", v)
                          /\ \A i \in (j + 1)..(k - 1) : calls[i].ev \notin {"onStart", "onDone"}
        /\ opts.pass = "install" =>
              \A i \in 1..Len(results) :
                 results[i].Skipped => EventsOf("onStart", results[i].Repo) = {}

\* an install pass with a manifest has run the install of one repo and has
\* skipped another that its filter leaves out
C24_Witness ==
    /\ opts.pass = "install"
    /\ pc = "returned"
    /\ ~setup.nil
    /\ ~opts.reposFilter.nil
    /\ \E v \in Planned : EventsOf("exec", v) # {} /\ EventsOf("save", v) # {}
    /\ \E i \in 1..Len(results) : results[i].Skipped

\* a run of runSetup starts from a new manifest instead of the one on disk
FreshStart == pc = "idle" /\ pc' = "clone" /\ ~opts'.retryMode /\ setup' # SetupOnDisk

\* the external commands a step runs for a repo
NewExecs(r) ==
    {i \in (Len(calls) + 1)..Len(calls') : calls'[i].ev = "exec" /\ calls'[i].repo = r}

\* C25: unless a run starts afresh, a clone or install phase the manifest
\* records as success stays success in every later step of runSetup, through
\* resumed runs, retry runs and retry passes, and that phase's command is not
\* run again for the repo.
C25_SuccessIsTerminal ==
    [][\A r \in Repos :
          /\ (SetupEntry(SetupOnDisk, r).CloneStatus = "success" /\ ~FreshStart) =>
                /\ SetupEntry(SetupOnDisk', r).CloneStatus = "success"
                /\ pc = "clone" => NewExecs(r) = {}
          /\ (SetupEntry(SetupOnDisk, r).InstallStatus = "success" /\ ~FreshStart) =>
                /\ SetupEntry(SetupOnDisk', r).InstallStatus = "success"
                /\ pc = "install" => NewExecs(r) = {}]_vars

\* a resumed run has skipped the install of a repo recorded as installed and
\* has run the install of another
C25_Witness ==
    /\ pc = "returned"
    /\ opts.pass = "install"
    /\ ~opts.retryMode
    /\ opts.reposFilter.nil
    /\ \E i \in 1..Len(results) :
          /\ results[i].Skipped
          /\ SetupEntry(setup, results[i].Repo).InstallStatus = "success"
    /\ \E i \in 1..Len(calls) : calls[i].ev = "exec"

\* C26: an install pass that works on a manifest runs no install for a repo
\* without pom.xml and records that repo's install as skipped; an install
\* status becomes success only in a step that ran the install for the repo
\* without error.
C26_NoPomIsSkipped ==
    [][(pc = "install" /\ ~setup.nil /\ idx' = idx + 1) =>
          LET repo == Flatten(plan.layers)[idx']
              res  == results'[idx']
          IN  /\ (~res.Skipped /\ ~PomExists(repos, repo)) =>
                    /\ NewExecs(repo) = {}
                    /\ SetupEntry(setup', repo).InstallStatus = "skipped"
              /\ (SetupEntry(setup', repo).InstallStatus = "success"
                     /\ SetupEntry(setup, repo).InstallStatus # "success") =>
                    NewExecs(repo) # {} /\ res.Error = ""]_vars

\* C27: the graph's node list holds each node once, every edge endpoint is a
\* node, the forward and reverse indexes describe the same edges, and adding a
\* node or an edge that is already present changes nothing.
Forward(gr) == {<<a, b>> \in (DOMAIN gr.edges) \X Ids : b \in gr.edges[a]}
Backward(gr) == {<<a, b>> \in Ids \X (DOMAIN gr.reverse) : a \in gr.reverse[b]}
C27_IndexesConsistent ==
    /\ \A i, j \in DOMAIN g.ordered : g.ordered[i] = g.ordered[j] => i = j
    /\ Range(g.ordered) = g.nodes
    /\ DOMAIN g.edges = g.nodes /\ DOMAIN g.reverse = g.nodes
    /\ \A e \in Forward(g) \cup Backward(g) : e[1] \in g.nodes /\ e[2] \in g.nodes
    /\ Forward(g) = Backward(g)
    /\ \A n \in g.nodes : AddNode(g, n) = g
    /\ \A e \in Forward(g) : AddEdge(g, e[1], e[2]) = g
C27_Witness ==
    /\ Cardinality(Forward(g)) >= 2
    /\ \E e \in Forward(g) : \E f \in Forward(g) : e[2] = f[1]
    /\ \E i \in DOMAIN g.ordered : g.ordered[i] < i

\* the ChangeSet the next flywork build computes from the manifest on disk
NextChangeSet ==
    LET ld == LoadManifest(disk)
    IN  DetectChanges(fw, repos, IF ld.err \/ ld.nil THEN NewManifest ELSE ld.m).changed

FailureFreePass ==
    /\ opts.pass = "build"
    /\ pc = "returned"
    /\ ret.err = "none"
    /\ ~opts.DryRun
    /\ opts.TargetRepos = <<>>
    /\ \A i \in DOMAIN results : results[i].Error = ""

\* C28: when a build pass over every changed repository has returned without
\* a failed node, change detection on the saved manifest finds nothing
\* changed, so the next build has nothing to plan.
C28_BuildsConverge == FailureFreePass => NextChangeSet = {}

\* the repositories the command at hand works on: its executor's set, or the
\* displayed set when it returned before the executor was called
RunSet == IF opts.executed THEN plan.buildSet ELSE UNION Range(opts.shown)

\* the repository's HEAD is readable and differs from the one recorded in hist
ChangedSince(hist, r) ==
    /\ r \in DOMAIN hist
    /\ DirExists(repos, r)
    /\ ~HeadSHA(repos, r).err
    /\ hist[r] # HeadSHA(repos, r).sha

\* no build and no deploy has failed so far
NoFailureRecorded ==
    disk.kind = "file" => \A r \in DOMAIN disk.repos : disk.repos[r].status = "success"

\* C29: while no action has failed, a publish run without --all and --repo
\* works on every repository whose HEAD changed since its last successful
\* publish, whatever was built in between, and a build run works on every
\* repository whose HEAD changed since its last successful build, whatever
\* was published in between.
C29_NoMasking ==
    (session = "publish" /\ pc \in {"build", "publish", "returned"} /\ ret.err = "none"
        /\ ~opts.ForceAll /\ opts.TargetRepos = <<>> /\ NoFailureRecorded) =>
       \A r \in Repos :
          /\ (opts.pass = "publish" /\ ChangedSince(deployed.published, r)) => r \in RunSet
          /\ (opts.pass = "build" /\ ChangedSince(deployed.built, r)) => r \in RunSet

\* C30: once a command has called its executor with a manifest file that is
\* missing or readable, the executor's layers hold the repositories of the
\* displayed layers, layer by layer.
C30_PlanIsExecuted ==
    (session = "publish" /\ pc \in {"build", "publish", "returned"} /\ opts.executed
        /\ disk.kind # "corrupt") =>
       /\ Len(plan.layers) = Len(opts.shown)
       /\ \A i \in DOMAIN plan.layers : Range(plan.layers[i]) = opts.shown[i]

====
